---- MODULE Spec2Model ----
(***************************************************************************)
(* Verification model of the Deckode export engine.                        *)
(*                                                                         *)
(*   Spec       buildNativePdf / renderSlide and the element drawers of    *)
(*              pdfNativeExport.ts, as one asynchronous call               *)
(*   SpecMd     parseMarkdownLines (the shared parser of markdownParser.ts *)
(*              and the private copy kept by pdfNativeExport.ts)           *)
(*   SpecRaster the rasterization bridge (rasterizeHtmlToBase64,           *)
(*              rasterizeKatexToBase64, rasterizeSvgToBase64)              *)
(*   SpecTwice, SpecInline, SpecShiki, SpecStyle, SpecText, SpecSteps,     *)
(*   SpecFont, SpecShape, SpecBackground, SpecController: one function or  *)
(*   component each, introduced with its definitions below                 *)
(*                                                                         *)
(* Strings whose characters matter are sequences of one-character strings. *)
(***************************************************************************)
EXTENDS Integers, Sequences, FiniteSets, TLC

VARIABLES
    \* ---- buildNativePdf ----
    deck,       \* the input deck: a sequence of slides
    doc,        \* the jsPDF document: a sequence of pages, each a sequence of drawing commands
    pc,         \* position of buildNativePdf: "loop", "elements", "await", "done", "rejected"
    i,          \* index into the filtered slide list (1-based)
    k,          \* index of the element renderSlide is at (1-based)
    tasks,      \* element drawers suspended at an await
    error,      \* the rejection reason of buildNativePdf, "none" while there is none
    failed,     \* elements one of whose collaborator steps failed
    callNo,     \* which buildNativePdf call is running: 1 or 2 (0: none)
    responses,  \* what the collaborators answered during the first call
    firstCall,  \* Null, or Some(outcome of the first call) once the second has started
    \* ---- parseMarkdownLines ----
    impl,       \* which parseMarkdownLines runs: "shared" or "pdf"
    source,     \* the input string
    lineNo,     \* number of physical lines consumed by the for loop
    parsed,     \* ParsedLine[] built so far
    mathBuf,    \* the block-math buffer: a sequence of lines, or Null
    mdPc,       \* "loop" while the for loop runs, "done" after return
    \* ---- rasterization bridge ----
    rFn,        \* which bridge function is running
    rPc,        \* position inside it
    rIn,        \* its inputs and the values its collaborators produced
    rWrappers,  \* measuring wrapper nodes attached to document.body
    rBlobUrls,  \* object URLs created and not yet revoked
    rResult,    \* the value returned: Null, or Some(image); Null before return
    \* ---- synchronous library functions ----
    call,       \* the activation: [fn |-> name, and the arguments of the call]
    returned    \* Null until the call returns, then Some(return value)

pdfVars == <<deck, doc, pc, i, k, tasks, error, failed, callNo, responses, firstCall>>
mdVars == <<impl, source, lineNo, parsed, mathBuf, mdPc>>
rasterVars == <<rFn, rPc, rIn, rWrappers, rBlobUrls, rResult>>
callVars == <<call, returned>>
vars == <<deck, doc, pc, i, k, tasks, error, failed, callNo, responses, firstCall,
          impl, source, lineNo, parsed, mathBuf, mdPc,
          rFn, rPc, rIn, rWrappers, rBlobUrls, rResult,
          call, returned>>

\* null, for a value that is otherwise a sequence or wrapped as Some(v)
Null == <<>>
Some(v) == <<v>>

\* ---- bounds ----
MaxSlides == 2
MaxElements == 2

(***************************************************************************)
(* buildNativePdf                                                          *)
(***************************************************************************)

\* The element variants of one slide.  present: the element carries the
\* payload its drawer tests (el.content of a code element, el.svgUrl of a
\* TikZ element); the other drawers test nothing.
ElementKinds ==
    {[type |-> t, present |-> TRUE] :
        t \in {"text", "code", "shape", "image", "table", "tikz", "video"}}
    \cup {[type |-> t, present |-> FALSE] : t \in {"code", "tikz"}}

\* The elements of slide s, in list order: those entries of the flat element
\* list flat that owner assigns to s.
RECURSIVE ElementsOf(_, _, _, _)
ElementsOf(flat, owner, s, n) ==
    IF n = 0 THEN <<>>
    ELSE IF owner[n] = s THEN Append(ElementsOf(flat, owner, s, n - 1), flat[n])
         ELSE ElementsOf(flat, owner, s, n - 1)

MakeDeck(hid, owner, flat) ==
    [s \in DOMAIN hid |->
        [hidden |-> hid[s], elements |-> ElementsOf(flat, owner, s, Len(flat))]]

\* const slides = deck.slides.filter((s) => !s.hidden), as indices into the deck
RECURSIVE FilterVisible(_, _)
FilterVisible(d, n) ==
    IF n = 0 THEN <<>>
    ELSE IF d[n].hidden THEN FilterVisible(d, n - 1)
         ELSE Append(FilterVisible(d, n - 1), n)

\* mutant: the filter keeps every slide
slidesKeepHidden == [n \in 1..Len(deck) |-> n]

slides == FilterVisible(deck, Len(deck))

\* if (i > 0) doc.addPage(...), with the loop index counted from 1
NeedsAddPage(n) == n > 1

\* mutant: renderSlide forgets the await in front of drawImage
AwaitedExceptImage(type) == type # "image"

\* The drawers renderSlide awaits (every asynchronous one).
Awaited(type) == TRUE

Cmd(s, e, op) == [slide |-> s, el |-> e, op |-> op]

\* Append drawing commands to the current page of the document.
Draw(d, cmds) == [d EXCEPT ![Len(d)] = @ \o cmds]

curSlide == slides[i]
curEl == deck[curSlide].elements[k]

NewDocumentKeepsPages == doc

\* const doc = new jsPDF(...): one empty page
NewDocument == << <<>> >>

\* A deck of at most MaxSlides slides and MaxElements elements.  The elements of
\* a hidden slide are never read, so hidden slides are given none.
InitPdf ==
    /\ \E n \in 0..MaxSlides, m \in 0..MaxElements :
         \E hid \in [1..n -> BOOLEAN], owner \in [1..m -> 1..n] :
            /\ \A j \in 1..m : ~hid[owner[j]]
            /\ \A j \in 1..(m - 1) : owner[j] <= owner[j + 1]
            /\ \E flat \in [1..m -> ElementKinds] : deck = MakeDeck(hid, owner, flat)
    /\ doc = << <<>> >>
    /\ pc = "loop"
    /\ i = 1
    /\ k = 0
    /\ tasks = {}
    /\ error = "none"
    /\ failed = {}
    /\ callNo = 1
    /\ responses = {}
    /\ firstCall = Null
    /\ impl = "none" /\ source = <<>> /\ lineNo = 0 /\ parsed = <<>>
    /\ mathBuf = Null /\ mdPc = "idle"
    /\ rFn = "none" /\ rPc = "idle" /\ rIn = <<>> /\ rWrappers = 0
    /\ rBlobUrls = 0 /\ rResult = Null
    /\ call = [fn |-> "none"] /\ returned = Null

\* Loop head of buildNativePdf and the first statements of renderSlide:
\* add the page of every slide but the first, fill the background.
renderSlide ==
    /\ UNCHANGED <<mdVars, rasterVars, callVars, callNo, responses, firstCall>>
    /\ pc = "loop"
    /\ i <= Len(slides)
    /\ doc' = IF NeedsAddPage(i)
                THEN Append(doc, <<Cmd(curSlide, 0, "rect")>>)
                ELSE Draw(doc, <<Cmd(curSlide, 0, "rect")>>)
    /\ pc' = "elements"
    /\ k' = 1
    /\ UNCHANGED <<deck, i, tasks, error, failed>>

\* The synchronous drawers.  One command stands for the drawing calls the
\* drawer issues before it returns.

\* case "text": drawText(doc, el, deck)
drawText ==
    /\ UNCHANGED <<mdVars, rasterVars, callVars, callNo, responses, firstCall>>
    /\ pc = "elements"
    /\ k <= Len(deck[curSlide].elements)
    /\ curEl.type = "text"
    /\ doc' = Draw(doc, <<Cmd(curSlide, k, "drawText")>>)
    /\ k' = k + 1
    /\ UNCHANGED <<deck, pc, i, tasks, error, failed>>

\* case "shape": drawShape(doc, el, deck)
drawShape ==
    /\ UNCHANGED <<mdVars, rasterVars, callVars, callNo, responses, firstCall>>
    /\ pc = "elements"
    /\ k <= Len(deck[curSlide].elements)
    /\ curEl.type = "shape"
    /\ doc' = Draw(doc, <<Cmd(curSlide, k, "drawShape")>>)
    /\ k' = k + 1
    /\ UNCHANGED <<deck, pc, i, tasks, error, failed>>

\* case "table": drawTable(doc, el, deck)
drawTable ==
    /\ UNCHANGED <<mdVars, rasterVars, callVars, callNo, responses, firstCall>>
    /\ pc = "elements"
    /\ k <= Len(deck[curSlide].elements)
    /\ curEl.type = "table"
    /\ doc' = Draw(doc, <<Cmd(curSlide, k, "drawTable")>>)
    /\ k' = k + 1
    /\ UNCHANGED <<deck, pc, i, tasks, error, failed>>

\* case "video": drawVideo(doc, el)
drawVideo ==
    /\ UNCHANGED <<mdVars, rasterVars, callVars, callNo, responses, firstCall>>
    /\ pc = "elements"
    /\ k <= Len(deck[curSlide].elements)
    /\ curEl.type = "video"
    /\ doc' = Draw(doc, <<Cmd(curSlide, k, "drawVideo")>>)
    /\ k' = k + 1
    /\ UNCHANGED <<deck, pc, i, tasks, error, failed>>

\* Start of an asynchronous drawer: run it to its first await, or to its
\* return when it returns before any.
StartTask(type, at) ==
    /\ tasks' = tasks \cup {[slide |-> curSlide, el |-> k, type |-> type, at |-> at,
                             awaited |-> Awaited(type)]}
    /\ IF Awaited(type)
         THEN pc' = "await" /\ k' = k
         ELSE pc' = pc /\ k' = k + 1

\* drawCode up to `await codeToHtml(...)`: the background is drawn first.
drawCode ==
    /\ UNCHANGED <<mdVars, rasterVars, callVars, callNo, responses, firstCall>>
    /\ pc = "elements"
    /\ k <= Len(deck[curSlide].elements)
    /\ curEl.type = "code"
    /\ doc' = Draw(doc, <<Cmd(curSlide, k, "roundedRect")>>)
    /\ IF curEl.present
         THEN StartTask("code", "codeToHtml")
         ELSE /\ k' = k + 1
              /\ UNCHANGED <<pc, tasks>>
    /\ UNCHANGED <<deck, i, error, failed>>

\* drawImage up to `await resolveAssetSrc(...)`
drawImage ==
    /\ UNCHANGED <<mdVars, rasterVars, callVars, callNo, responses, firstCall>>
    /\ pc = "elements"
    /\ k <= Len(deck[curSlide].elements)
    /\ curEl.type = "image"
    /\ StartTask("image", "resolveAssetSrc")
    /\ UNCHANGED <<deck, doc, i, error, failed>>

\* drawTikZ up to `await resolveAssetSrc(...)`, or its early return
drawTikZ ==
    /\ UNCHANGED <<mdVars, rasterVars, callVars, callNo, responses, firstCall>>
    /\ pc = "elements"
    /\ k <= Len(deck[curSlide].elements)
    /\ curEl.type = "tikz"
    /\ IF curEl.present
         THEN StartTask("tikz", "resolveAssetSrc")
         ELSE /\ k' = k + 1
              /\ UNCHANGED <<pc, tasks>>
    /\ UNCHANGED <<deck, doc, i, error, failed>>

\* A suspended drawer moves on to its next await.
Continue(t, at) ==
    /\ tasks' = (tasks \ {t}) \cup {[t EXCEPT !.at = at]}
    /\ UNCHANGED <<pc, k, error>>

\* A drawer returns: the await in renderSlide, if there is one, resumes.
Return(t) ==
    /\ tasks' = tasks \ {t}
    /\ IF t.awaited
         THEN pc' = "elements" /\ k' = k + 1
         ELSE UNCHANGED <<pc, k>>
    /\ UNCHANGED error

\* A drawer throws: nothing between the drawer and the caller of
\* buildNativePdf catches, so an awaited drawer rejects the whole call.
Throw(t, reason) ==
    /\ tasks' = tasks \ {t}
    /\ IF t.awaited
         THEN pc' = "rejected" /\ error' = reason
         ELSE UNCHANGED <<pc, error>>
    /\ UNCHANGED k

Fail(t) == failed' = failed \cup {<<t.slide, t.el>>}

\* What a collaborator answers to the step t.at of the drawer of an element:
\* any answer in the first call, the same answer again in the second.
Respond(t, answer) ==
    LET r == [slide |-> t.slide, el |-> t.el, at |-> t.at, answer |-> <<answer>>]
    IN IF callNo = 1
         THEN responses' = responses \cup {r}
         ELSE r \in responses /\ UNCHANGED responses

\* codeToHtml settles; on success drawCode places the tokens.
codeToHtmlSettled ==
    \E t \in tasks, ok \in BOOLEAN :
        /\ UNCHANGED <<mdVars, rasterVars, callVars, callNo, firstCall>>
        /\ t.at = "codeToHtml"
        /\ Respond(t, ok)
        /\ IF ok
             THEN /\ doc' = Draw(doc, <<Cmd(t.slide, t.el, "text")>>)
                  /\ Return(t)
                  /\ UNCHANGED failed
             ELSE /\ Throw(t, "codeToHtml")
                  /\ Fail(t)
                  /\ UNCHANGED doc
        /\ UNCHANGED <<deck, i>>

\* resolveAssetSrc settles (adapter.resolveAssetUrl returned, resolved or rejected).
resolveAssetSrcSettled ==
    \E t \in tasks, ok \in BOOLEAN :
        /\ UNCHANGED <<mdVars, rasterVars, callVars, callNo, firstCall>>
        /\ t.at = "resolveAssetSrc"
        /\ Respond(t, ok)
        /\ IF ok
             THEN /\ Continue(t, IF t.type = "image" THEN "fetchImageAsBase64" ELSE "fetch")
                  /\ UNCHANGED failed
             ELSE /\ Throw(t, "resolveAssetSrc")
                  /\ Fail(t)
        /\ UNCHANGED <<deck, doc, i>>

\* fetchImageAsBase64 settles with the data URL or with null (it catches every
\* fetch error); drawImage embeds the data, or the resolved reference when
\* there is none, and doc.addImage either draws or throws.
fetchImageAsBase64Settled ==
    \E t \in tasks, b64 \in {Some("data"), Null}, embeds \in BOOLEAN :
        /\ UNCHANGED <<mdVars, rasterVars, callVars, callNo, firstCall>>
        /\ t.at = "fetchImageAsBase64"
        /\ Respond(t, <<b64, embeds>>)
        /\ IF embeds
             THEN /\ doc' = Draw(doc, <<Cmd(t.slide, t.el, "addImage")>>)
                  /\ Return(t)
                  /\ failed' = IF b64 = Null THEN failed \cup {<<t.slide, t.el>>} ELSE failed
             ELSE /\ Throw(t, "addImage")
                  /\ Fail(t)
                  /\ UNCHANGED doc
        /\ UNCHANGED <<deck, i>>

\* drawTikZ: fetch settles; a response that is not OK returns without drawing.
fetchSettled ==
    \E t \in tasks, resp \in {"ok", "notOk", "rejected"} :
        /\ UNCHANGED <<mdVars, rasterVars, callVars, callNo, firstCall>>
        /\ t.at = "fetch"
        /\ Respond(t, resp)
        /\ CASE resp = "ok" -> Continue(t, "svg") /\ UNCHANGED failed
             [] resp = "notOk" -> Return(t) /\ Fail(t)
             [] OTHER -> Throw(t, "fetch") /\ Fail(t)
        /\ UNCHANGED <<deck, doc, i>>

\* drawTikZ: doc.svg settles; it draws the vector paths when it resolves.
svgSettled ==
    \E t \in tasks, ok \in BOOLEAN :
        /\ UNCHANGED <<mdVars, rasterVars, callVars, callNo, firstCall>>
        /\ t.at = "svg"
        /\ Respond(t, ok)
        /\ IF ok
             THEN /\ doc' = Draw(doc, <<Cmd(t.slide, t.el, "svg")>>)
                  /\ Return(t)
                  /\ UNCHANGED failed
             ELSE /\ Throw(t, "svg")
                  /\ Fail(t)
                  /\ UNCHANGED doc
        /\ UNCHANGED <<deck, i>>

\* renderSlide returns: the for loop of buildNativePdf moves to the next slide.
renderSlideReturn ==
    /\ UNCHANGED <<mdVars, rasterVars, callVars, callNo, responses, firstCall>>
    /\ pc = "elements"
    /\ k > Len(deck[curSlide].elements)
    /\ pc' = "loop"
    /\ i' = i + 1
    /\ UNCHANGED <<deck, doc, k, tasks, error, failed>>

\* return doc
buildNativePdfReturn ==
    /\ UNCHANGED <<mdVars, rasterVars, callVars, callNo, responses, firstCall>>
    /\ pc = "loop"
    /\ i > Len(slides)
    /\ pc' = "done"
    /\ UNCHANGED <<deck, doc, i, k, tasks, error, failed>>

\* A second call of buildNativePdf on the same deck, after the first has
\* returned or rejected.
buildNativePdf ==
    /\ UNCHANGED <<mdVars, rasterVars, callVars>>
    /\ callNo = 1
    /\ pc \in {"done", "rejected"}
    /\ firstCall' = Some([doc |-> doc, pc |-> pc, error |-> error])
    /\ callNo' = 2
    /\ doc' = NewDocument
    /\ pc' = "loop"
    /\ i' = 1
    /\ k' = 0
    /\ error' = "none"
    /\ UNCHANGED <<deck, tasks, failed, responses>>

NextPdf ==
    \/ renderSlide
    \/ drawText
    \/ drawCode
    \/ drawShape
    \/ drawImage
    \/ drawTable
    \/ drawTikZ
    \/ drawVideo
    \/ codeToHtmlSettled
    \/ resolveAssetSrcSettled
    \/ fetchImageAsBase64Settled
    \/ fetchSettled
    \/ svgSettled
    \/ renderSlideReturn
    \/ buildNativePdfReturn

Spec == InitPdf /\ [][NextPdf]_vars

NextTwice ==
    \/ NextPdf
    \/ buildNativePdf

\* Two calls of buildNativePdf, one after the other, on one deck.
SpecTwice == InitPdf /\ [][NextTwice]_vars

(***************************************************************************)
(* Strings as sequences of one-character strings                           *)
(***************************************************************************)

\* Characters String.prototype.trim removes and \s matches.
WS == {" ", "\t", "\n"}

NL == "\n"

\* The character U+0060, which a TLA+ string cannot hold.
Backtick == "BT"

Drop(s, n) == SubSeq(s, n + 1, Len(s))

StartsWith(s, prefix) ==
    Len(s) >= Len(prefix) /\ SubSeq(s, 1, Len(prefix)) = prefix

\* s.startsWith(prefix, at - 1): prefix occurs in s at 1-based position at
OccursAt(s, prefix, at) ==
    at + Len(prefix) - 1 <= Len(s) /\ SubSeq(s, at, at + Len(prefix) - 1) = prefix

RECURSIVE TrimStart(_)
TrimStart(s) == IF s # <<>> /\ s[1] \in WS THEN TrimStart(Tail(s)) ELSE s

RECURSIVE TrimEnd(_)
TrimEnd(s) ==
    IF s # <<>> /\ s[Len(s)] \in WS THEN TrimEnd(SubSeq(s, 1, Len(s) - 1)) ELSE s

\* String.prototype.trim
Trim(s) == TrimEnd(TrimStart(s))

\* source.split("\n"): always at least one line
RECURSIVE Split(_)
Split(s) ==
    IF s = <<>> THEN << <<>> >>
    ELSE LET rest == Split(Tail(s))
         IN IF s[1] = NL THEN << <<>> >> \o rest
            ELSE << <<s[1]>> \o rest[1] >> \o Tail(rest)

\* lines.join("\n")
RECURSIVE Join(_)
Join(ls) ==
    IF ls = <<>> THEN <<>>
    ELSE IF Len(ls) = 1 THEN ls[1]
    ELSE ls[1] \o <<NL>> \o Join(Tail(ls))

(***************************************************************************)
(* parseInlineMarkdown                                                     *)
(***************************************************************************)

DelimitersItalicFirst ==
    << [mark |-> <<"*">>, kind |-> "italic"],
       [mark |-> <<"*", "*">>, kind |-> "bold"],
       [mark |-> <<Backtick>>, kind |-> "code"],
       [mark |-> <<"$">>, kind |-> "math"] >>

\* The alternatives of the regular expression, in pattern order:
\* (\*\*(.+?)\*\*)|(\*(.+?)\*)|(`(.+?)`)|(\$(.+?)\$)
Delimiters ==
    << [mark |-> <<"*", "*">>, kind |-> "bold"],
       [mark |-> <<"*">>, kind |-> "italic"],
       [mark |-> <<Backtick>>, kind |-> "code"],
       [mark |-> <<"$">>, kind |-> "math"] >>

\* The copy in pdfNativeExport.ts has no math alternative.
PdfDelimiters == SubSeq(Delimiters, 1, 3)

\* Position of the closing mark of a lazy (.+?) group whose content starts at
\* from: the least q > from at which mark occurs; 0 when there is none.
RECURSIVE CloseAt(_, _, _)
CloseAt(text, mark, q) ==
    IF q + Len(mark) - 1 > Len(text) THEN 0
    ELSE IF OccursAt(text, mark, q) THEN q
    ELSE CloseAt(text, mark, q + 1)

\* The match of alternative d at position at: [len, content], len = 0 for none.
MatchAlt(text, d, at) ==
    LET open == d.mark
        from == at + Len(open)
        q == IF OccursAt(text, open, at) THEN CloseAt(text, open, from + 1) ELSE 0
    IN IF q = 0 THEN [len |-> 0, kind |-> d.kind, content |-> <<>>]
       ELSE [len |-> q + Len(open) - at, kind |-> d.kind,
             content |-> SubSeq(text, from, q - 1)]

\* The first alternative that matches at position at.
RECURSIVE MatchAt(_, _, _, _)
MatchAt(text, delims, n, at) ==
    IF n > Len(delims) THEN [len |-> 0, kind |-> "none", content |-> <<>>]
    ELSE LET m == MatchAlt(text, delims[n], at)
         IN IF m.len > 0 THEN m ELSE MatchAt(text, delims, n + 1, at)

\* re.exec from lastIndex: the leftmost position with a match, 0 for none.
RECURSIVE ExecFrom(_, _, _)
ExecFrom(text, delims, at) ==
    IF at > Len(text) THEN 0
    ELSE IF MatchAt(text, delims, 1, at).len > 0 THEN at
    ELSE ExecFrom(text, delims, at + 1)

HasTrailingTextAlways(text, last) == TRUE

\* if (last < text.length), last being 1-based here
HasTrailingText(text, last) == last <= Len(text)

Run(text, kind, withMath) ==
    IF withMath
      THEN [text |-> text, bold |-> kind = "bold", italic |-> kind = "italic",
            code |-> kind = "code", math |-> kind = "math"]
      ELSE [text |-> text, bold |-> kind = "bold", italic |-> kind = "italic",
            code |-> kind = "code"]

\* The while loop and the trailing slice; last is the 1-based position of
\* the first character not yet consumed.
RECURSIVE InlineRuns(_, _, _, _)
InlineRuns(text, delims, withMath, last) ==
    LET at == ExecFrom(text, delims, last)
    IN IF at = 0
         THEN IF HasTrailingText(text, last)
                THEN <<Run(SubSeq(text, last, Len(text)), "none", withMath)>>
                ELSE <<>>
         ELSE LET m == MatchAt(text, delims, 1, at)
                  plain == IF at > last
                             THEN <<Run(SubSeq(text, last, at - 1), "none", withMath)>>
                             ELSE <<>>
              IN plain \o <<Run(m.content, m.kind, withMath)>>
                   \o InlineRuns(text, delims, withMath, at + m.len)

InlineMarkdown(text, delims, withMath) ==
    LET runs == InlineRuns(text, delims, withMath, 1)
    IN IF runs = <<>> THEN <<Run(text, "none", withMath)>> ELSE runs

\* parseInlineMarkdown of markdownParser.ts
parseInlineMarkdown(text) == InlineMarkdown(text, Delimiters, TRUE)

\* parseInlineMarkdown of pdfNativeExport.ts
pdfParseInlineMarkdown(text) == InlineMarkdown(text, PdfDelimiters, FALSE)

(***************************************************************************)
(* parseMarkdownLines: the shared parser (markdownParser.ts) and the copy  *)
(* pdfNativeExport.ts keeps for drawText.  fontScale is held in tenths.    *)
(***************************************************************************)

\* ---- bounds ----
MaxLines == 2        \* physical lines of an input assembled from SampleLines
MaxBlockLines == 5   \* physical lines of an input assembled from BlockLines

\* Lines the inputs are assembled from.
SampleLines ==
    { <<>>,
      <<" ">>,
      <<"$", "$">>,
      <<" ", "$", "$", " ">>,
      <<"$", "$", "x", "$", "$">>,
      <<"#", " ", "a">>,
      <<"#", "#", " ", "a">>,
      <<" ", "#", "#", "#", " ", " ", "*", "a", "*">>,
      <<"#", "#", "#", "#", " ", "a">>,
      <<"#", "a">>,
      <<"-", " ", "a">>,
      <<"*", " ", "b", " ">>,
      <<"-", " ">>,
      <<"a", " ", "$", "b", "$">> }

\* Lines the longer inputs are assembled from: a delimiter, a whitespace-only
\* line, a heading and a list item with trailing whitespace.
BlockLines ==
    { <<"$", "$">>,
      <<" ">>,
      <<"#", " ", "a">>,
      <<"*", " ", "b", " ">> }

\* Number of leading "#" of t.
RECURSIVE HashCount(_)
HashCount(t) == IF t # <<>> /\ t[1] = "#" THEN 1 + HashCount(Tail(t)) ELSE 0

\* t.match(/^(#{1,3})\s+(.+)$/): [level, text], level = 0 when there is no
\* match.  t is trimmed, so a text follows every run of whitespace.
HeadingMatch(t) ==
    LET n == HashCount(t)
    IN IF n \in 1..3 /\ n < Len(t) /\ t[n + 1] \in WS
         THEN [level |-> n, text |-> TrimStart(Drop(t, n))]
         ELSE [level |-> 0, text |-> <<>>]

\* { 1: 1.8, 2: 1.4, 3: 1.1 }[level], in tenths
HeadingScale(level) ==
    CASE level = 1 -> 18 [] level = 2 -> 14 [] level = 3 -> 11

\* t.match(/^\$\$(.+)\$\$$/): the expression, or Null
SingleLineMath(t) ==
    IF Len(t) >= 5 /\ StartsWith(t, <<"$", "$">>) /\ SubSeq(t, Len(t) - 1, Len(t)) = <<"$", "$">>
      THEN Some(SubSeq(t, 3, Len(t) - 2))
      ELSE Null

\* t.startsWith("- ") || t.startsWith("* ")
IsListItem(t) == StartsWith(t, <<"-", " ">>) \/ StartsWith(t, <<"*", " ">>)

ParsedLine(runs, indent, bullet, fontScale, isBold, blockMath) ==
    [runs |-> runs, indent |-> indent, bullet |-> bullet, fontScale |-> fontScale,
     isBold |-> isBold, blockMath |-> blockMath]

\* mutant: the buffer keeps the trimmed line
BufferedLineTrimmed(line) == Trim(line)

\* mathBuf.push(line)
BufferedLine(line) == line

\* mutant: blank lines fall through to the paragraph branch
SkipsBlankNever(t) == FALSE

\* if (t === "") continue
SkipsBlank(t) == t = <<>>

\* mutant: the buffer is never consulted, every line is classified
InsideMathNever(st) == FALSE

\* if (mathBuf !== null)
InsideMath(st) == st.mathBuf # Null

\* One iteration of the for loop of the shared parseMarkdownLines on the state
\* st = [parsed, mathBuf].
MdStep(st, line) ==
    LET t == Trim(line)
        emit(pl) == [st EXCEPT !.parsed = Append(@, pl)]
    IN IF t = <<"$", "$">>
         THEN IF st.mathBuf = Null
                THEN [st EXCEPT !.mathBuf = Some(<<>>)]
                ELSE [parsed |-> Append(st.parsed,
                                        ParsedLine(<<>>, 0, FALSE, 10, FALSE,
                                                   Some(Join(st.mathBuf[1])))),
                      mathBuf |-> Null]
       ELSE IF InsideMath(st)
         THEN [st EXCEPT !.mathBuf = Some(Append(st.mathBuf[1], BufferedLine(line)))]
       ELSE IF SingleLineMath(t) # Null
         THEN emit(ParsedLine(<<>>, 0, FALSE, 10, FALSE, SingleLineMath(t)))
       ELSE IF SkipsBlank(t)
         THEN st
       ELSE IF HeadingMatch(t).level > 0
         THEN emit(ParsedLine(parseInlineMarkdown(HeadingMatch(t).text), 0, FALSE,
                              HeadingScale(HeadingMatch(t).level),
                              HeadingMatch(t).level <= 2, Null))
       ELSE IF IsListItem(t)
         THEN emit(ParsedLine(parseInlineMarkdown(Drop(t, 2)), -1, TRUE, 10, FALSE, Null))
       ELSE emit(ParsedLine(parseInlineMarkdown(t), 0, FALSE, 10, FALSE, Null))

PdfParsedLine(runs, indent, bullet, fontScale, isBold) ==
    [runs |-> runs, indent |-> indent, bullet |-> bullet, fontScale |-> fontScale,
     isBold |-> isBold]

\* One iteration of the for loop of the copy in pdfNativeExport.ts; it has
\* no block-math buffer.
PdfMdStep(st, line) ==
    LET t == Trim(line)
        emit(pl) == [st EXCEPT !.parsed = Append(@, pl)]
    IN IF t = <<>> THEN st
       ELSE IF StartsWith(t, <<"$", "$">>) THEN st
       ELSE IF HeadingMatch(t).level > 0
         THEN emit(PdfParsedLine(pdfParseInlineMarkdown(HeadingMatch(t).text), 0, FALSE,
                                 HeadingScale(HeadingMatch(t).level), TRUE))
       ELSE IF IsListItem(t)
         THEN emit(PdfParsedLine(pdfParseInlineMarkdown(Drop(t, 2)), 20, TRUE, 10, FALSE))
       ELSE emit(PdfParsedLine(pdfParseInlineMarkdown(t), 0, FALSE, 10, FALSE))

\* The for loop over the first n of the lines ls, from the initial state.
RECURSIVE MdLoop(_, _)
MdLoop(ls, n) ==
    IF n = 0 THEN [parsed |-> <<>>, mathBuf |-> Null]
    ELSE MdStep(MdLoop(ls, n - 1), ls[n])

\* parseMarkdownLines(source) of markdownParser.ts
parseMarkdownLines(src) == MdLoop(Split(src), Len(Split(src))).parsed

lines == Split(source)

InitMd ==
    /\ impl \in {"shared", "pdf"}
    /\ \/ \E n \in 0..MaxLines : \E ls \in [1..n -> SampleLines] : source = Join(ls)
       \/ \E n \in 0..MaxBlockLines : \E ls \in [1..n -> BlockLines] : source = Join(ls)
    /\ lineNo = 0
    /\ parsed = <<>>
    /\ mathBuf = Null
    /\ mdPc = "loop"
    /\ deck = <<>> /\ doc = <<>> /\ pc = "idle" /\ i = 0 /\ k = 0
    /\ tasks = {} /\ error = "none" /\ failed = {}
    /\ callNo = 0 /\ responses = {} /\ firstCall = Null
    /\ rFn = "none" /\ rPc = "idle" /\ rIn = <<>> /\ rWrappers = 0
    /\ rBlobUrls = 0 /\ rResult = Null
    /\ call = [fn |-> "none"] /\ returned = Null

\* for (const line of lines) { ... } of the shared parser, one iteration
parseLine ==
    /\ UNCHANGED <<pdfVars, rasterVars, callVars>>
    /\ impl = "shared"
    /\ mdPc = "loop"
    /\ lineNo < Len(lines)
    /\ LET st == MdStep([parsed |-> parsed, mathBuf |-> mathBuf], lines[lineNo + 1])
       IN /\ parsed' = st.parsed
          /\ mathBuf' = st.mathBuf
    /\ lineNo' = lineNo + 1
    /\ UNCHANGED <<impl, source, mdPc>>

\* for (const line of lines) { ... } of the copy, one iteration
pdfParseLine ==
    /\ UNCHANGED <<pdfVars, rasterVars, callVars>>
    /\ impl = "pdf"
    /\ mdPc = "loop"
    /\ lineNo < Len(lines)
    /\ LET st == PdfMdStep([parsed |-> parsed, mathBuf |-> mathBuf], lines[lineNo + 1])
       IN /\ parsed' = st.parsed
          /\ mathBuf' = st.mathBuf
    /\ lineNo' = lineNo + 1
    /\ UNCHANGED <<impl, source, mdPc>>

\* return parsed
parseMarkdownLinesReturn ==
    /\ UNCHANGED <<pdfVars, rasterVars, callVars>>
    /\ mdPc = "loop"
    /\ lineNo = Len(lines)
    /\ mdPc' = "done"
    /\ UNCHANGED <<impl, source, lineNo, parsed, mathBuf>>

NextMd ==
    \/ parseLine
    \/ pdfParseLine
    \/ parseMarkdownLinesReturn

SpecMd == InitMd /\ [][NextMd]_vars

(***************************************************************************)
(* Rasterization bridge: rasterizeKatexToBase64, rasterizeHtmlToBase64,    *)
(* rasterizeSvgToBase64.  Calls follow one another; a call that throws     *)
(* leaves behind what it had not released.                                 *)
(***************************************************************************)

\* ---- bounds ----
MaxDim == 2       \* measured and requested sizes range over 0..MaxDim
MaxLeaked == 1    \* no further call starts once more than this many resources leaked

RASTER_SCALE == 2

\* mutant: null only when both dimensions are zero
ZeroSizeBoth(w, h) == w = 0 /\ h = 0

\* if (w === 0 || h === 0)
ZeroSize(w, h) == w = 0 \/ h = 0

\* Math.round(n / d) for n >= 0, d > 0
RoundDiv(n, d) == (2 * n + d) \div (2 * d)

\* The canvas size rasterizeSvgToBase64 computes ("Preserve aspect ratio"):
\* nw / nh > w / h  <=>  nw * h > w * nh for positive sizes.
CanvasSize(natW, natH, w, h) ==
    LET nw == IF natW = 0 THEN w ELSE natW      \* img.naturalWidth || w
        nh == IF natH = 0 THEN h ELSE natH      \* img.naturalHeight || h
    IN IF nw * h > w * nh
         THEN [width |-> w * RASTER_SCALE, height |-> RoundDiv(w * nh * RASTER_SCALE, nw)]
         ELSE [width |-> RoundDiv(h * nw * RASTER_SCALE, nh), height |-> h * RASTER_SCALE]

\* Inputs and collaborator answers of the running call, and the resource
\* counts it started from.
NoInput == [w |-> 0, h |-> 0, resp |-> "none", loaded |-> "none", wrappers0 |-> 0, blobUrls0 |-> 0]

CanCall ==
    /\ rPc \in {"idle", "returned", "thrown"}
    /\ rWrappers <= MaxLeaked
    /\ rBlobUrls <= MaxLeaked

InitRaster ==
    /\ rFn = "none" /\ rPc = "idle" /\ rIn = NoInput /\ rWrappers = 0
    /\ rBlobUrls = 0 /\ rResult = Null
    /\ call = [fn |-> "none"] /\ returned = Null
    /\ deck = <<>> /\ doc = <<>> /\ pc = "idle" /\ i = 0 /\ k = 0
    /\ tasks = {} /\ error = "none" /\ failed = {}
    /\ callNo = 0 /\ responses = {} /\ firstCall = Null
    /\ impl = "none" /\ source = <<>> /\ lineNo = 0 /\ parsed = <<>>
    /\ mathBuf = Null /\ mdPc = "idle"

\* rasterizeHtmlToBase64 up to `await document.fonts.ready`: the wrapper is
\* attached to document.body.
EnterHtml(fn) ==
    /\ CanCall
    /\ rFn' = fn
    /\ rIn' = [NoInput EXCEPT !.wrappers0 = rWrappers, !.blobUrls0 = rBlobUrls]
    /\ rWrappers' = rWrappers + 1
    /\ rPc' = "fontsReady"
    /\ rResult' = Null
    /\ UNCHANGED rBlobUrls

rasterizeHtmlToBase64 ==
    /\ UNCHANGED <<pdfVars, mdVars, callVars>>
    /\ EnterHtml("rasterizeHtmlToBase64")

\* katex.renderToString(..., throwOnError: false), then rasterizeHtmlToBase64
rasterizeKatexToBase64 ==
    /\ UNCHANGED <<pdfVars, mdVars, callVars>>
    /\ EnterHtml("rasterizeKatexToBase64")

\* After the font wait and the 50 ms timer: measure the container.
measure ==
    /\ UNCHANGED <<pdfVars, mdVars, callVars>>
    /\ rPc = "fontsReady"
    /\ \E w \in 0..MaxDim, h \in 0..MaxDim :
         /\ rIn' = [rIn EXCEPT !.w = w, !.h = h]
         /\ IF ZeroSize(w, h)
              THEN /\ rWrappers' = rWrappers - 1        \* wrapper.remove()
                   /\ rResult' = Null
                   /\ rPc' = "returned"
              ELSE /\ rPc' = "toPng"
                   /\ UNCHANGED <<rWrappers, rResult>>
    /\ UNCHANGED <<rFn, rBlobUrls>>

\* import("html-to-image") and toPng settle.
toPngSettled ==
    /\ UNCHANGED <<pdfVars, mdVars, callVars>>
    /\ rPc = "toPng"
    /\ \E ok \in BOOLEAN :
         IF ok
           THEN /\ rWrappers' = rWrappers - 1           \* wrapper.remove()
                /\ rResult' = Some([dataUrl |-> "png", width |-> rIn.w, height |-> rIn.h])
                /\ rPc' = "returned"
           ELSE /\ rPc' = "thrown"
                /\ UNCHANGED <<rWrappers, rResult>>
    /\ UNCHANGED <<rFn, rIn, rBlobUrls>>

\* rasterizeSvgToBase64(url, w, h) up to `await fetch(url)`
rasterizeSvgToBase64 ==
    /\ UNCHANGED <<pdfVars, mdVars, callVars>>
    /\ CanCall
    /\ \E w \in 1..MaxDim, h \in 1..MaxDim :
         rIn' = [NoInput EXCEPT !.w = w, !.h = h,
                                !.wrappers0 = rWrappers, !.blobUrls0 = rBlobUrls]
    /\ rFn' = "rasterizeSvgToBase64"
    /\ rPc' = "fetch"
    /\ rResult' = Null
    /\ UNCHANGED <<rWrappers, rBlobUrls>>

\* fetch and resp.text() settle; with the text the blob URL is created.
svgFetchSettled ==
    /\ UNCHANGED <<pdfVars, mdVars, callVars>>
    /\ rPc = "fetch"
    /\ \E resp \in {"ok", "notOk", "rejected"} :
         /\ rIn' = [rIn EXCEPT !.resp = resp]
         /\ CASE resp = "ok" ->
                /\ rBlobUrls' = rBlobUrls + 1           \* URL.createObjectURL(blob)
                /\ rPc' = "load"
                /\ UNCHANGED rResult
           [] resp = "notOk" ->
                /\ rResult' = Null
                /\ rPc' = "returned"
                /\ UNCHANGED rBlobUrls
           [] OTHER ->
                /\ rPc' = "thrown"
                /\ UNCHANGED <<rResult, rBlobUrls>>
    /\ UNCHANGED <<rFn, rWrappers>>

\* The image loads or fails to; a loaded image is drawn on a canvas, whose
\* 2d context may be unavailable (ctx.scale then throws).
imgSettled ==
    /\ UNCHANGED <<pdfVars, mdVars, callVars>>
    /\ rPc = "load"
    /\ \E loaded \in BOOLEAN, natW \in 0..MaxDim, natH \in 0..MaxDim, ctx \in BOOLEAN :
         /\ rIn' = [rIn EXCEPT !.loaded = IF loaded THEN "yes" ELSE "no"]
         /\ IF ~loaded
           THEN /\ rBlobUrls' = rBlobUrls - 1           \* URL.revokeObjectURL(blobUrl)
                /\ rResult' = Null
                /\ rPc' = "returned"
           ELSE IF ctx
                  THEN /\ rBlobUrls' = rBlobUrls - 1    \* URL.revokeObjectURL(blobUrl)
                       /\ rResult' = Some([dataUrl |-> "png",
                                           width |-> CanvasSize(natW, natH, rIn.w, rIn.h).width,
                                           height |-> CanvasSize(natW, natH, rIn.w, rIn.h).height])
                       /\ rPc' = "returned"
                  ELSE /\ rPc' = "thrown"
                       /\ UNCHANGED <<rResult, rBlobUrls>>
    /\ UNCHANGED <<rFn, rWrappers>>

NextRaster ==
    \/ rasterizeHtmlToBase64
    \/ rasterizeKatexToBase64
    \/ measure
    \/ toPngSettled
    \/ rasterizeSvgToBase64
    \/ svgFetchSettled
    \/ imgSettled

SpecRaster == InitRaster /\ [][NextRaster]_vars

(***************************************************************************)
(* Claims about buildNativePdf (specification Spec)                        *)
(***************************************************************************)

VisibleCount == Cardinality({s \in 1..Len(deck) : ~deck[s].hidden})

CommandsOf(s, e) ==
    {<<p, j>> \in UNION {{<<p, j>> : j \in 1..Len(doc[p])} : p \in 1..Len(doc)} :
        doc[p][j].slide = s /\ doc[p][j].el = e}

\* C1: the document buildNativePdf returns has one page per slide that is not
\* hidden, and exactly one page when no slide is visible.
C1_PageCount ==
    pc = "done" => Len(doc) = (IF VisibleCount = 0 THEN 1 ELSE VisibleCount)

C1_Witness ==
    /\ pc = "done"
    /\ Len(deck) = 2
    /\ deck[1].hidden
    /\ ~deck[2].hidden
    /\ Len(doc) = 1
    /\ doc[1] # <<>>

\* C2: drawing commands reach the document in deck order: page p holds only
\* commands of the p-th visible slide, the background fill first and then the
\* elements in list order; when the call returns, every element drawn by a
\* synchronous drawer and the background of every code element is on its page.
C2_DeckOrder ==
    /\ \A p \in 1..Len(doc) :
         \A j \in 1..Len(doc[p]) :
            /\ p <= Len(slides)
            /\ doc[p][j].slide = slides[p]
            /\ (j = 1) = (doc[p][j].el = 0)
            /\ j > 1 => doc[p][j - 1].el <= doc[p][j].el
    /\ pc = "done" =>
         \A p \in 1..Len(slides) :
            /\ p <= Len(doc)
            /\ doc[p] # <<>>
            /\ \A e \in 1..Len(deck[slides[p]].elements) :
                 deck[slides[p]].elements[e].type \in {"text", "shape", "table", "video", "code"}
                    => \E j \in 1..Len(doc[p]) : doc[p][j].el = e

C2_Witness ==
    /\ pc = "done"
    /\ Len(doc) = 2
    /\ \E j \in 1..Len(doc[1]) : doc[1][j].op = "addImage"
    /\ \E j \in 1..Len(doc[2]) : doc[2][j].op = "text"

\* C3: no drawing command of an element is on the document while one of the
\* element's highlighter, asset-resolution or fetch steps is still pending.
C3_AwaitsBeforeDraw ==
    \A t \in tasks :
        t.at \in {"codeToHtml", "resolveAssetSrc", "fetchImageAsBase64", "fetch"}
            => CommandsOf(t.slide, t.el) = {}

\* C4: a failed asset resolution, fetch or embed step never rejects the call;
\* in the returned document the failing elements are absent and every other
\* element of every visible slide is drawn.
C4_FailureSkipsElement ==
    /\ ~(pc = "rejected" /\ error \in {"resolveAssetSrc", "fetch", "addImage", "svg"})
    /\ pc = "done" =>
         \A p \in 1..Len(slides) :
            \A e \in 1..Len(deck[slides[p]].elements) :
                IF <<slides[p], e>> \in failed
                  THEN CommandsOf(slides[p], e) = {}
                  ELSE deck[slides[p]].elements[e].present => CommandsOf(slides[p], e) # {}

\* d is what a call has drawn when it is part of the way to document e: the
\* finished pages are the same and the current page is a prefix.
DrawnSoFar(d, e) ==
    /\ Len(d) <= Len(e)
    /\ \A p \in 1..(Len(d) - 1) : d[p] = e[p]
    /\ Len(d[Len(d)]) <= Len(e[Len(d)])
    /\ d[Len(d)] = SubSeq(e[Len(d)], 1, Len(d[Len(d)]))

\* C17: a second buildNativePdf call on the same deck, given the answers the
\* collaborators gave the first call, issues the same drawing commands on the
\* same pages and ends the same way; its document holds nothing of the first
\* call's document beyond what the second call itself has drawn.
C17_SameCommandsNewDocument ==
    callNo = 2 =>
        /\ DrawnSoFar(doc, firstCall[1].doc)
        /\ (pc = "loop" /\ i = 1) => doc = << <<>> >>
        /\ pc \in {"done", "rejected"} =>
              (doc = firstCall[1].doc /\ pc = firstCall[1].pc /\ error = firstCall[1].error)

C17_Witness ==
    /\ callNo = 2
    /\ pc = "done"
    /\ Len(doc) = 2
    /\ \E r \in responses : r.at = "fetchImageAsBase64" /\ r.answer = <<<<Null, TRUE>>>>
    /\ \E c \in 1..Len(doc[2]) : doc[2][c].op = "addImage"
    /\ doc = firstCall[1].doc

(***************************************************************************)
(* Claims about the rasterization bridge (specification SpecRaster)        *)
(***************************************************************************)

HtmlFns == {"rasterizeHtmlToBase64", "rasterizeKatexToBase64"}

\* C5: a call that measured a zero width or height (HTML, KaTeX), got a
\* response that is not OK or failed to load the image (SVG) has returned null
\* and has not thrown; every call that returned has released the wrapper node
\* and the blob URL it created.
C5_NoImageAndReleased ==
    /\ (rFn \in HtmlFns /\ rPc \in {"toPng", "returned", "thrown"} /\ (rIn.w = 0 \/ rIn.h = 0))
          => (rPc = "returned" /\ rResult = Null)
    /\ (rFn = "rasterizeSvgToBase64" /\ (rIn.resp = "notOk" \/ rIn.loaded = "no"))
          => (rPc = "returned" /\ rResult = Null)
    /\ rPc = "returned" => (rWrappers = rIn.wrappers0 /\ rBlobUrls = rIn.blobUrls0)

C5_Witness ==
    /\ rPc = "returned"
    /\ rFn = "rasterizeKatexToBase64"
    /\ rIn.w > 0
    /\ rIn.h = 0
    /\ rResult = Null
    /\ rIn.wrappers0 = 1
    /\ rWrappers = 1

(***************************************************************************)
(* Claims about parseMarkdownLines (specification SpecMd)                  *)
(***************************************************************************)

\* The line the loop iteration lineNo -> lineNo + 1 consumes.
StepLine == lines[lineNo + 1]

IsDelimiter(l) == Trim(l) = <<"$", "$">>

DelimitersBefore(n) == {j \in 1..(n - 1) : IsDelimiter(lines[j])}

\* Block-math mode is on at line n: an odd number of delimiter lines precede it.
OpenBefore(n) == Cardinality(DelimitersBefore(n)) % 2 = 1

\* The delimiter line that opened the block line n lies in.
OpenerBefore(n) == CHOOSE j \in DelimitersBefore(n) : \A m \in DelimitersBefore(n) : m <= j

Last(sq) == sq[Len(sq)]

Emitted == Len(parsed') = Len(parsed) + 1 /\ SubSeq(parsed', 1, Len(parsed)) = parsed

HeadingLevelOf(l) ==
    LET t == Trim(l)
    IN IF HashCount(t) \in 1..3 /\ HashCount(t) < Len(t) /\ t[HashCount(t) + 1] \in WS
         THEN HashCount(t) ELSE 0

StartsListItem(l) ==
    LET t == Trim(l)
    IN Len(t) >= 2 /\ t[1] \in {"-", "*"} /\ t[2] = " "

\* C6: in either parseMarkdownLines, a heading line of level 1, 2 or 3 (outside
\* a block-math block) yields one ParsedLine of fontScale 1.8, 1.4 or 1.1 (18,
\* 14, 11 tenths) and isBold true, true, false; a ParsedLine emitted for any
\* other line has fontScale 1 and isBold false.
C6_HeadingScaleAndBold ==
    [][(lineNo' = lineNo + 1 /\ (impl = "shared" \/ ~OpenBefore(lineNo + 1))) =>
         LET level == IF OpenBefore(lineNo + 1) THEN 0 ELSE HeadingLevelOf(StepLine)
         IN IF level > 0
              THEN /\ Emitted
                   /\ Last(parsed').fontScale = (CASE level = 1 -> 18 [] level = 2 -> 14 [] OTHER -> 11)
                   /\ Last(parsed').isBold = (level <= 2)
              ELSE Len(parsed') > Len(parsed) =>
                     (Last(parsed').fontScale = 10 /\ ~Last(parsed').isBold)]_vars

\* C7: in either parseMarkdownLines, a line starting with "- " or "* " (outside
\* a block-math block) yields one ParsedLine with bullet true and indent -1, and
\* no ParsedLine with bullet false has indent -1.
C7_BulletSentinel ==
    [][(lineNo' = lineNo + 1 /\ ~OpenBefore(lineNo + 1)) =>
         /\ StartsListItem(StepLine) =>
              (Emitted /\ Last(parsed').bullet /\ Last(parsed').indent = -1)
         /\ \A j \in 1..Len(parsed') : ~parsed'[j].bullet => parsed'[j].indent # -1]_vars

\* The closed blocks of the input: <<o, c>> with o an opening delimiter line
\* and c the delimiter line that closes it.
ClosedBlocks ==
    {oc \in (1..Len(lines)) \X (1..Len(lines)) :
        /\ oc[1] < oc[2]
        /\ IsDelimiter(lines[oc[1]]) /\ IsDelimiter(lines[oc[2]])
        /\ ~OpenBefore(oc[1])
        /\ \A m \in (oc[1] + 1)..(oc[2] - 1) : ~IsDelimiter(lines[m])}

\* The result is the result for the lines before block oc, one block-math
\* ParsedLine, and the result for the lines after it.
AsIfBlockAbsent(oc) ==
    LET before == parseMarkdownLines(Join(SubSeq(lines, 1, oc[1] - 1)))
        after == parseMarkdownLines(Join(SubSeq(lines, oc[2] + 1, Len(lines))))
    IN /\ Len(parsed) = Len(before) + 1 + Len(after)
       /\ SubSeq(parsed, 1, Len(before)) = before
       /\ parsed[Len(before) + 1].blockMath = Some(Join(SubSeq(lines, oc[1] + 1, oc[2] - 1)))
       /\ parsed[Len(before) + 1].runs = <<>>
       /\ SubSeq(parsed, Len(before) + 2, Len(parsed)) = after

C8_Returned == (impl = "shared" /\ mdPc = "done") => \A oc \in ClosedBlocks : AsIfBlockAbsent(oc)

\* C8: a "$$" line toggles block-math mode; while the mode is on every line is
\* appended unchanged to the buffer and emits nothing; the closing "$$" emits
\* one ParsedLine with no runs whose blockMath is the buffered lines joined by
\* newline; the lines before and after a block are parsed as without it.
C8_BlockMath ==
    /\ [][(impl = "shared" /\ lineNo' = lineNo + 1) =>
            LET n == lineNo + 1
            IN CASE IsDelimiter(StepLine) /\ ~OpenBefore(n) ->
                      parsed' = parsed /\ mathBuf' = Some(<<>>)
                 [] ~IsDelimiter(StepLine) /\ OpenBefore(n) ->
                      /\ parsed' = parsed
                      /\ mathBuf' = Some(SubSeq(lines, OpenerBefore(n) + 1, n))
                 [] IsDelimiter(StepLine) /\ OpenBefore(n) ->
                      /\ Emitted
                      /\ Last(parsed').runs = <<>>
                      /\ Last(parsed').blockMath =
                            Some(Join(SubSeq(lines, OpenerBefore(n) + 1, n - 1)))
                      /\ mathBuf' = Null
                 [] OTHER -> mathBuf' = Null]_vars
    /\ []C8_Returned

C8_Witness ==
    /\ impl = "shared"
    /\ mdPc = "done"
    /\ lines = << <<"#", " ", "a">>, <<"$", "$">>, <<"*", " ", "b", " ">>, <<"$", "$">>,
                  <<"*", " ", "b", " ">> >>
    /\ Len(parsed) = 3
    /\ parsed[1].fontScale = 18
    /\ parsed[2].blockMath = Some(<<"*", " ", "b", " ">>)
    /\ parsed[3].bullet

\* C9: when the last "$$" line of the input opens a block that is never
\* closed, the result is the result for the lines before that line: nothing
\* is emitted for it or for any line after it.
C9_UnterminatedBlock ==
    (impl = "shared" /\ mdPc = "done" /\ OpenBefore(Len(lines) + 1)) =>
        /\ parsed = parseMarkdownLines(Join(SubSeq(lines, 1, OpenerBefore(Len(lines) + 1) - 1)))
        /\ mathBuf = Some(SubSeq(lines, OpenerBefore(Len(lines) + 1) + 1, Len(lines)))

C9_Witness ==
    /\ impl = "shared"
    /\ mdPc = "done"
    /\ lines = << <<"#", " ", "a">>, <<"$", "$">>, <<"*", " ", "b", " ">>, <<"#", " ", "a">> >>
    /\ Len(parsed) = 1
    /\ parsed[1].fontScale = 18

C10_Returned ==
    (impl = "shared" /\ mdPc = "done") =>
        Len(parsed) = Cardinality({j \in 1..Len(lines) :
                                     /\ ~OpenBefore(j)
                                     /\ ~IsDelimiter(lines[j])
                                     /\ Trim(lines[j]) # <<>>})
                      + Cardinality(ClosedBlocks)

\* C10: outside block-math mode every line that is neither blank nor a "$$"
\* delimiter appends exactly one ParsedLine and a blank or whitespace-only
\* line none; a line that is no heading, list item or single-line block math
\* becomes a paragraph with indent 0, bullet false, fontScale 1, no blockMath;
\* the call returns for every input, with as many ParsedLines as such lines
\* plus closed blocks.
C10_OneParsedLinePerLine ==
    /\ [][(impl = "shared" /\ lineNo' = lineNo + 1 /\ ~OpenBefore(lineNo + 1)
              /\ ~IsDelimiter(StepLine)) =>
            IF Trim(StepLine) = <<>>
              THEN parsed' = parsed
              ELSE /\ Emitted
                   /\ (/\ HeadingLevelOf(StepLine) = 0
                       /\ ~StartsListItem(StepLine)
                       /\ ~(Len(Trim(StepLine)) >= 5 /\ Trim(StepLine)[1] = "$"
                              /\ Trim(StepLine)[2] = "$"
                              /\ Trim(StepLine)[Len(Trim(StepLine)) - 1] = "$"
                              /\ Last(Trim(StepLine)) = "$"))
                        => /\ Last(parsed').indent = 0
                           /\ ~Last(parsed').bullet
                           /\ Last(parsed').fontScale = 10
                           /\ ~Last(parsed').isBold
                           /\ Last(parsed').blockMath = Null
                           /\ Last(parsed').runs # <<>>]_vars
    /\ []C10_Returned

C10_Witness ==
    /\ impl = "shared"
    /\ mdPc = "done"
    /\ lines = << <<" ">>, <<"#", "a">> >>
    /\ Len(parsed) = 1
    /\ parsed[1].indent = 0
    /\ parsed[1].runs[1].text = <<"#", "a">>

(***************************************************************************)
(* parseShikiHtml and unescapeHtml: shikiTokenParser.ts and the copy kept  *)
(* by pdfNativeExport.ts (specification SpecShiki)                         *)
(***************************************************************************)

\* s.indexOf(pat, from - 1) + 1: the least position >= from at which pat
\* occurs, 0 when there is none.
Least(ps) == IF ps = {} THEN 0 ELSE CHOOSE p \in ps : \A q \in ps : p <= q

IndexOf(s, pat, from) == Least({p \in from..Len(s) : OccursAt(s, pat, p)})

\* s.replace(/pat/g, by) for a literal pat
RECURSIVE ReplaceAll(_, _, _)
ReplaceAll(s, pat, by) ==
    LET at == IndexOf(s, pat, 1)
    IN IF at = 0 THEN s
       ELSE SubSeq(s, 1, at - 1) \o by \o ReplaceAll(Drop(s, at + Len(pat) - 1), pat, by)

\* The replacements of unescapeHtml, in the order they are applied.
Entities ==
    << [entity |-> <<"&", "a", "m", "p", ";">>, char |-> <<"&">>],
       [entity |-> <<"&", "l", "t", ";">>, char |-> <<"<">>],
       [entity |-> <<"&", "g", "t", ";">>, char |-> <<">">>],
       [entity |-> <<"&", "q", "u", "o", "t", ";">>, char |-> <<"\"">>],
       [entity |-> <<"&", "#", "3", "9", ";">>, char |-> <<"'">>],
       [entity |-> <<"&", "#", "x", "2", "7", ";">>, char |-> <<"'">>] >>

RECURSIVE ReplaceEach(_, _, _)
ReplaceEach(s, reps, n) ==
    IF n > Len(reps) THEN s
    ELSE ReplaceEach(ReplaceAll(s, reps[n].entity, reps[n].char), reps, n + 1)

unescapeHtml(s) == ReplaceEach(s, Entities, 1)

DEFAULT_CODE_FG == <<"#", "c", "d", "d", "6", "f", "4">>

CodeOpen == <<"<", "c", "o", "d", "e">>
CodeClose == <<"<", "/", "c", "o", "d", "e", ">">>
LineOpen == <<"<", "s", "p", "a", "n", " ", "c", "l", "a", "s", "s", "=", "\"", "l", "i", "n", "e", "\"", ">">>
SpanClose == <<"<", "/", "s", "p", "a", "n", ">">>
ColorOpen == <<"<", "s", "p", "a", "n", " ", "s", "t", "y", "l", "e", "=", "\"", "c", "o", "l", "o", "r", ":">>

HexDigits == {"0", "1", "2", "3", "4", "5", "6", "7", "8", "9",
              "a", "b", "c", "d", "e", "f", "A", "B", "C", "D", "E", "F"}

\* html.match(/<code[^>]*>([\s\S]*?)<\/code>/)[1], Null when there is no match
CodeMatch(html) ==
    LET CloseFrom(open) ==
            LET gt == IndexOf(html, <<">">>, open + Len(CodeOpen))
                end == IF gt = 0 THEN 0 ELSE IndexOf(html, CodeClose, gt + 1)
            IN IF end = 0 THEN Null ELSE Some(SubSeq(html, gt + 1, end - 1))
        open == Least({p \in 1..Len(html) : OccursAt(html, CodeOpen, p) /\ CloseFrom(p) # Null})
    IN IF open = 0 THEN Null ELSE CloseFrom(open)

\* s.split(/pat/) for a literal pat
RECURSIVE SplitBy(_, _)
SplitBy(s, pat) ==
    LET at == IndexOf(s, pat, 1)
    IN IF at = 0 THEN <<s>>
       ELSE <<SubSeq(s, 1, at - 1)>> \o SplitBy(Drop(s, at + Len(pat) - 1), pat)

\* part.replace(/<\/span>\s*$/, "")
DropLineClose(part) ==
    LET t == TrimEnd(part)
    IN IF Len(t) >= Len(SpanClose) /\ OccursAt(t, SpanClose, Len(t) - Len(SpanClose) + 1)
         THEN SubSeq(t, 1, Len(t) - Len(SpanClose))
         ELSE part

\* s.replace(/<[^>]*>/g, "")
RECURSIVE StripTags(_)
StripTags(s) ==
    LET lt == IndexOf(s, <<"<">>, 1)
        gt == IF lt = 0 THEN 0 ELSE IndexOf(s, <<">">>, lt + 1)
    IN IF gt = 0 THEN s
       ELSE SubSeq(s, 1, lt - 1) \o StripTags(Drop(s, gt))

\* The first position >= at whose character is not in set (Len(s) + 1 if none).
SkipWhile(s, set, at) ==
    Least({p \in at..(Len(s) + 1) : p = Len(s) + 1 \/ s[p] \notin set})

\* The match of /<span style="color:\s*(#[0-9a-fA-F]{3,8})">(.*?)<\/span>/ at
\* position at: [len, color, text], len = 0 for none.
TokenMatchAt(s, at) ==
    LET hash == SkipWhile(s, WS, at + Len(ColorOpen))
        hexEnd == SkipWhile(s, HexDigits, hash + 1)
        body == hexEnd + 2
        close == IndexOf(s, SpanClose, body)
        ok == /\ OccursAt(s, ColorOpen, at)
              /\ hash <= Len(s) /\ s[hash] = "#"
              /\ hexEnd - (hash + 1) \in 3..8
              /\ OccursAt(s, <<"\"", ">">>, hexEnd)
              /\ close # 0
              /\ \A j \in body..(close - 1) : s[j] # NL
    IN IF ok THEN [len |-> close + Len(SpanClose) - at,
                   color |-> SubSeq(s, hash, hexEnd - 1),
                   text |-> SubSeq(s, body, close - 1)]
       ELSE [len |-> 0, color |-> <<>>, text |-> <<>>]

\* tokenRegex.exec from lastIndex: leftmost position with a match, 0 for none
TokenExecFrom(s, at) == Least({p \in at..Len(s) : TokenMatchAt(s, p).len > 0})

CodeToken(text, color) == [text |-> text, color |-> color]

PlainTokenNever(stretch) == <<>>

\* The plain-text token of a stretch between tagged spans, if it is not empty.
PlainToken(stretch) ==
    LET plain == StripTags(stretch)
    IN IF plain # <<>> THEN <<CodeToken(unescapeHtml(plain), DEFAULT_CODE_FG)>> ELSE <<>>

\* The token loop of one line; lastEnd is the 1-based position of the first
\* character not yet consumed.
RECURSIVE LineTokens(_, _)
LineTokens(lineContent, lastEnd) ==
    LET at == TokenExecFrom(lineContent, lastEnd)
    IN IF at = 0
         THEN IF lastEnd <= Len(lineContent)
                THEN PlainToken(SubSeq(lineContent, lastEnd, Len(lineContent)))
                ELSE <<>>
         ELSE LET m == TokenMatchAt(lineContent, at)
              IN (IF at > lastEnd THEN PlainToken(SubSeq(lineContent, lastEnd, at - 1)) ELSE <<>>)
                   \o <<CodeToken(unescapeHtml(m.text), m.color)>>
                   \o LineTokens(lineContent, at + m.len)

RECURSIVE PartsTokens(_)
PartsTokens(lineParts) ==
    IF lineParts = <<>> THEN <<>>
    ELSE (IF Trim(lineParts[1]) = <<>> THEN <<>>
          ELSE <<LineTokens(DropLineClose(lineParts[1]), 1)>>)
           \o PartsTokens(Tail(lineParts))

\* parseShikiHtml of shikiTokenParser.ts
parseShikiHtml(html) ==
    LET codeMatch == CodeMatch(html)
    IN IF codeMatch = Null THEN <<>>
       ELSE PartsTokens(SplitBy(codeMatch[1], LineOpen))

\* parseShikiHtml of pdfNativeExport.ts: the loop over
\* /<span class="line">(.*?)<\/span>/gs
RECURSIVE pdfParseShikiHtml(_)
pdfParseShikiHtml(html) ==
    LET open == IndexOf(html, LineOpen, 1)
        body == open + Len(LineOpen)
        close == IF open = 0 THEN 0 ELSE IndexOf(html, SpanClose, body)
    IN IF close = 0 THEN <<>>
       ELSE <<LineTokens(SubSeq(html, body, close - 1), 1)>>
              \o pdfParseShikiHtml(Drop(html, close + Len(SpanClose) - 1))

\* ---- the highlighter (codeToHtml of shiki), a collaborator ----

MaxCode == 4
MaxSegs == 3

CodeChars == {"&", "<", "l", "t", ";", NL}

\* HTML escaping of one source character by the highlighter.
EscapeChar(c) ==
    CASE c = "&" -> <<"&", "a", "m", "p", ";">>
      [] c = "<" -> <<"&", "l", "t", ";">>
      [] c = ">" -> <<"&", "g", "t", ";">>
      [] c = "\"" -> <<"&", "q", "u", "o", "t", ";">>
      [] c = "'" -> <<"&", "#", "3", "9", ";">>
      [] OTHER -> <<c>>

RECURSIVE escapeHtml(_)
escapeHtml(s) == IF s = <<>> THEN <<>> ELSE EscapeChar(s[1]) \o escapeHtml(Tail(s))

RECURSIVE WrapLines(_)
WrapLines(ls) ==
    IF ls = <<>> THEN <<>>
    ELSE LineOpen \o ls[1] \o SpanClose
           \o (IF Len(ls) > 1 THEN <<NL>> ELSE <<>>) \o WrapLines(Tail(ls))

PreCode(body) == <<"<", "p", "r", "e", ">", "<", "c", "o", "d", "e", ">">> \o body \o <<"<", "/", "c", "o", "d", "e", ">", "<", "/", "p", "r", "e", ">">>

\* Markup whose lines are the escaped source lines, one line span each.
codeToHtml(code) ==
    LET ls == Split(code)
    IN PreCode(WrapLines([j \in 1..Len(ls) |-> escapeHtml(ls[j])]))

\* The pieces a highlighted line is made of: text, a color-tagged span, or
\* another tag.
Segments ==
    { [kind |-> "text", text |-> <<"a">>, color |-> <<>>, markup |-> <<"a">>],
      [kind |-> "text", text |-> <<" ">>, color |-> <<>>, markup |-> <<" ">>],
      [kind |-> "span", text |-> <<"x">>, color |-> <<"#", "F", "0", "0">>,
       markup |-> <<"<", "s", "p", "a", "n", " ", "s", "t", "y", "l", "e", "=", "\"", "c", "o", "l", "o", "r", ":", " ", "#", "F", "0", "0", "\"", ">", "x", "<", "/", "s", "p", "a", "n", ">">>],
      [kind |-> "span", text |-> <<"y", " ">>, color |-> <<"#", "0", "0", "f", "f", "0", "0", "a", "a">>,
       markup |-> <<"<", "s", "p", "a", "n", " ", "s", "t", "y", "l", "e", "=", "\"", "c", "o", "l", "o", "r", ":", "#", "0", "0", "f", "f", "0", "0", "a", "a", "\"", ">", "y", " ", "<", "/", "s", "p", "a", "n", ">">>],
      [kind |-> "tag", text |-> <<>>, color |-> <<>>, markup |-> <<"<", "b", ">">>] }

RECURSIVE MarkupOf(_)
MarkupOf(segs) == IF segs = <<>> THEN <<>> ELSE segs[1].markup \o MarkupOf(Tail(segs))

\* Markup without a code tag.
NoCodeMarkup == {<<>>, <<"<", "d", "i", "v", ">", "a", "<", "/", "d", "i", "v", ">">>, LineOpen \o <<"a">> \o SpanClose}

InitShiki ==
    /\ \/ \E impl0 \in {"shared", "pdf"}, n \in 0..MaxCode : \E code \in [1..n -> CodeChars] :
            call = [fn |-> "parseShikiHtml", impl |-> impl0, from |-> "code",
                    html |-> codeToHtml(code), code |-> code, segs |-> <<>>]
       \/ \E impl0 \in {"shared", "pdf"}, n \in 0..MaxSegs : \E line \in [1..n -> Segments] :
            \E more \in {<<>>} \cup {<<sg>> : sg \in Segments} :
               LET ls == IF more = <<>> THEN <<line>> ELSE <<line, more>>
               IN call = [fn |-> "parseShikiHtml", impl |-> impl0, from |-> "segments",
                          html |-> PreCode(WrapLines([j \in 1..Len(ls) |-> MarkupOf(ls[j])])),
                          code |-> <<>>, segs |-> ls]
       \/ \E impl0 \in {"shared", "pdf"}, html \in NoCodeMarkup :
            call = [fn |-> "parseShikiHtml", impl |-> impl0, from |-> "other",
                    html |-> html, code |-> <<>>, segs |-> <<>>]
    /\ returned = Null
    /\ deck = <<>> /\ doc = <<>> /\ pc = "idle" /\ i = 0 /\ k = 0
    /\ tasks = {} /\ error = "none" /\ failed = {}
    /\ callNo = 0 /\ responses = {} /\ firstCall = Null
    /\ impl = "none" /\ source = <<>> /\ lineNo = 0 /\ parsed = <<>>
    /\ mathBuf = Null /\ mdPc = "idle"
    /\ rFn = "none" /\ rPc = "idle" /\ rIn = <<>> /\ rWrappers = 0
    /\ rBlobUrls = 0 /\ rResult = Null

parseShikiHtmlReturn ==
    /\ call.fn = "parseShikiHtml" /\ call.impl = "shared"
    /\ returned = Null
    /\ returned' = Some(parseShikiHtml(call.html))
    /\ UNCHANGED <<call, pdfVars, mdVars, rasterVars>>

pdfParseShikiHtmlReturn ==
    /\ call.fn = "parseShikiHtml" /\ call.impl = "pdf"
    /\ returned = Null
    /\ returned' = Some(pdfParseShikiHtml(call.html))
    /\ UNCHANGED <<call, pdfVars, mdVars, rasterVars>>

NextShiki ==
    \/ parseShikiHtmlReturn
    \/ pdfParseShikiHtmlReturn

SpecShiki == InitShiki /\ [][NextShiki]_vars

(***************************************************************************)
(* resolveStyle: exportUtils.ts and ThemeContext (specification SpecStyle) *)
(***************************************************************************)

StyleFields == {"color", "fontSize"}
StyleValues == {"a", "b", "undefined"}

\* Style objects: the own properties and their values.
Styles == UNION {[fs -> StyleValues] : fs \in SUBSET StyleFields}

\* { ...a, ...b }
Spread(a, b) == [f \in DOMAIN a \cup DOMAIN b |-> IF f \in DOMAIN b THEN b[f] ELSE a[f]]

resolveStyleThemeWins(theme, element) ==
    IF theme = Null THEN (IF element = Null THEN Spread(<<>>, <<>>) ELSE element[1])
    ELSE IF element = Null THEN theme[1]
    ELSE Spread(element[1], theme[1])

\* resolveStyle of exportUtils.ts; an argument is Null (undefined) or Some(style)
resolveStyle(theme, element) ==
    IF theme = Null THEN (IF element = Null THEN Spread(<<>>, <<>>) ELSE element[1])
    ELSE IF element = Null THEN theme[1]
    ELSE Spread(theme[1], element[1])

\* resolveStyle of ThemeContext
themeResolveStyle(themeStyle, elementStyle) ==
    IF themeStyle = Null
      THEN (IF elementStyle = Null THEN Spread(<<>>, <<>>) ELSE elementStyle[1])
    ELSE IF elementStyle = Null THEN themeStyle[1]
    ELSE Spread(themeStyle[1], elementStyle[1])

InitStyle ==
    /\ \E side \in {"export", "renderer"} :
         \E theme \in {Null} \cup {Some(st) : st \in Styles},
            element \in {Null} \cup {Some(st) : st \in Styles} :
            call = [fn |-> "resolveStyle", side |-> side, theme |-> theme, element |-> element]
    /\ returned = Null
    /\ deck = <<>> /\ doc = <<>> /\ pc = "idle" /\ i = 0 /\ k = 0
    /\ tasks = {} /\ error = "none" /\ failed = {}
    /\ callNo = 0 /\ responses = {} /\ firstCall = Null
    /\ impl = "none" /\ source = <<>> /\ lineNo = 0 /\ parsed = <<>>
    /\ mathBuf = Null /\ mdPc = "idle"
    /\ rFn = "none" /\ rPc = "idle" /\ rIn = <<>> /\ rWrappers = 0
    /\ rBlobUrls = 0 /\ rResult = Null

resolveStyleReturn ==
    /\ call.fn = "resolveStyle" /\ call.side = "export"
    /\ returned = Null
    /\ returned' = Some(resolveStyle(call.theme, call.element))
    /\ UNCHANGED <<call, pdfVars, mdVars, rasterVars>>

themeResolveStyleReturn ==
    /\ call.fn = "resolveStyle" /\ call.side = "renderer"
    /\ returned = Null
    /\ returned' = Some(themeResolveStyle(call.theme, call.element))
    /\ UNCHANGED <<call, pdfVars, mdVars, rasterVars>>

NextStyle ==
    \/ resolveStyleReturn
    \/ themeResolveStyleReturn

SpecStyle == InitStyle /\ [][NextStyle]_vars

(***************************************************************************)
(* drawText: word wrap and vertical alignment (specification SpecText)     *)
(***************************************************************************)

MaxWords == 3      \* units (words and whitespace runs) of one parsed line
MaxWidth == 3      \* measured width of one unit: 0..MaxWidth
MaxAvail == 4      \* maxWidth = w - 2 * padding: 0..MaxAvail

TEXT_PADDING == 4

\* A unit of a parsed line: the width doc.getTextWidth measures for it and
\* whether its text is whitespace only.
Units == [ww : 0..MaxWidth, blank : BOOLEAN]

WrapsBeforeNever(currentWidth, ww, availWidth, segments) == FALSE

WrapsBeforeOnEmpty(currentWidth, ww, availWidth, segments) == currentWidth + ww > availWidth

\* if (currentWidth + ww > availWidth && currentLine.segments.length > 0)
WrapsBefore(currentWidth, ww, availWidth, segments) ==
    currentWidth + ww > availWidth /\ segments # <<>>

VisualLine(segments, indent, bullet) ==
    [segments |-> segments, indent |-> indent, bullet |-> bullet]

\* for (const w of words) { ... } and the push of the last line: the visual
\* lines of one parsed line.
RECURSIVE WrapWords(_, _, _, _, _)
WrapWords(words, availWidth, currentLine, currentWidth, indent) ==
    IF words = <<>>
      THEN IF currentLine.segments # <<>> THEN <<currentLine>> ELSE <<>>
      ELSE LET w == words[1]
           IN IF WrapsBefore(currentWidth, w.ww, availWidth, currentLine.segments)
                THEN <<currentLine>> \o
                     (IF w.blank
                        THEN WrapWords(Tail(words), availWidth,
                                       VisualLine(<<>>, indent, FALSE), 0, indent)
                        ELSE WrapWords(Tail(words), availWidth,
                                       VisualLine(<<w>>, indent, FALSE), w.ww, indent))
                ELSE WrapWords(Tail(words), availWidth,
                               VisualLine(currentLine.segments \o <<w>>, indent,
                                          currentLine.bullet),
                               currentWidth + w.ww, indent)

\* for (const pl of parsedLines) { ... }: pl holds the units of the line, its
\* indent and its bullet flag.
RECURSIVE WrapParsedLines(_, _)
WrapParsedLines(parsedLines, maxWidth) ==
    IF parsedLines = <<>> THEN <<>>
    ELSE LET pl == parsedLines[1]
         IN WrapWords(pl.words, maxWidth - pl.indent,
                      VisualLine(<<>>, pl.indent, pl.bullet), 0, pl.indent)
              \o WrapParsedLines(Tail(parsedLines), maxWidth)

StartYTopAlways(verticalAlign, y, h, totalHeight10, baseFontSize) ==
    20 * (y + TEXT_PADDING + baseFontSize)

\* startY in twentieths of a unit; totalHeight10 is totalHeight in tenths.
StartY(verticalAlign, y, h, totalHeight10, baseFontSize) ==
    CASE verticalAlign = "middle" -> 20 * y + (10 * h - totalHeight10) + 20 * baseFontSize
      [] verticalAlign = "bottom" ->
            20 * (y + h) - 2 * totalHeight10 + 20 * baseFontSize - 20 * TEXT_PADDING
      [] OTHER -> 20 * (y + TEXT_PADDING + baseFontSize)

\* The copy of parseMarkdownLines in pdfNativeExport.ts, which drawText calls
RECURSIVE PdfMdLoop(_, _)
PdfMdLoop(ls, n) ==
    IF n = 0 THEN [parsed |-> <<>>, mathBuf |-> Null]
    ELSE PdfMdStep(PdfMdLoop(ls, n - 1), ls[n])

pdfParseMarkdownLines(src) == PdfMdLoop(Split(src), Len(Split(src))).parsed

\* run.text.split(/(\s+)/) without the empty pieces: the maximal runs of
\* whitespace and of other characters, in order.
RECURSIVE SplitWords(_)
SplitWords(text) ==
    IF text = <<>> THEN <<>>
    ELSE LET blank == text[1] \in WS
             ends == {e \in 1..Len(text) :
                        /\ \A j \in 1..e : (text[j] \in WS) = blank
                        /\ (e = Len(text) \/ (text[e + 1] \in WS) # blank)}
             e == CHOOSE x \in ends : TRUE
         IN <<SubSeq(text, 1, e)>> \o SplitWords(Drop(text, e))

\* The word units of the runs of a parsed line; doc.getTextWidth measures
\* charWidth for every character.
RECURSIVE RunWords(_, _)
RunWords(runs, charWidth) ==
    IF runs = <<>> THEN <<>>
    ELSE LET rws == SplitWords(runs[1].text)
         IN [j \in 1..Len(rws) |-> [ww |-> Len(rws[j]) * charWidth,
                                     blank |-> rws[j][1] \in WS]]
              \o RunWords(Tail(runs), charWidth)

\* const parsedLines = parseMarkdownLines(el.content), each line with the
\* units built from its runs; a call that fixes the units has no content.
ParsedLinesOf(c) ==
    IF c.content = Null THEN c.parsedLines
    ELSE LET pls == pdfParseMarkdownLines(c.content[1])
         IN [j \in 1..Len(pls) |-> [words |-> RunWords(pls[j].runs, c.charWidth),
                                     indent |-> pls[j].indent,
                                     bullet |-> pls[j].bullet]]

ClippedNever(lineY20, y, h) == FALSE

\* if (lineY > y + h) break; lineY in twentieths
Clipped(lineY20, y, h) == lineY20 > 20 * (y + h)

RECURSIVE TotalW(_)
TotalW(segments) ==
    IF segments = <<>> THEN 0 ELSE segments[1].ww + TotalW(Tail(segments))

\* lineX of a visual line, in halves
LineX(align, x, w, vl) ==
    LET maxWidth == w - TEXT_PADDING * 2
    IN CASE align = "center" ->
              2 * (x + TEXT_PADDING) + (maxWidth - (vl.indent + TotalW(vl.segments)))
                + 2 * vl.indent
         [] align = "right" -> 2 * (x + w - TEXT_PADDING - TotalW(vl.segments))
         [] OTHER -> 2 * (x + TEXT_PADDING + vl.indent)

\* for (let i = 0; i < visualLines.length; i++) { ... }: what is drawn, from
\* line i on (counted from 1): for each line its baseline, its start, whether
\* the bullet glyph is drawn, and its segments.
RECURSIVE RenderLines(_, _, _, _)
RenderLines(c, visualLines, n, startY20) ==
    IF n > Len(visualLines) THEN <<>>
    ELSE LET lineY20 == startY20 + (n - 1) * 2 * (c.baseFontSize * c.lineHeight)
         IN IF Clipped(lineY20, c.y, c.h) THEN <<>>
            ELSE <<[line |-> n, lineY |-> lineY20,
                    lineX |-> LineX(c.align, c.x, c.w, visualLines[n]),
                    bullet |-> visualLines[n].bullet,
                    segments |-> visualLines[n].segments]>>
                 \o RenderLines(c, visualLines, n + 1, startY20)

\* What drawText computes and draws once the visual lines are known: the
\* total height (in tenths; lineHeight is in tenths), the first baseline and
\* the drawn lines.
LayoutOf(c, visualLines) ==
    LET lineHeightPx10 == c.baseFontSize * c.lineHeight
        totalHeight10 == Len(visualLines) * lineHeightPx10
        startY20 == StartY(c.verticalAlign, c.y, c.h, totalHeight10, c.baseFontSize)
    IN [visualLines |-> visualLines,
        totalHeight |-> totalHeight10,
        startY |-> startY20,
        drawn |-> RenderLines(c, visualLines, 1, startY20)]

\* drawText: parsedLines and visualLines are computed once each.
TextLayout(c) ==
    CHOOSE layout \in
        {LayoutOf(c, visualLines) :
            visualLines \in {WrapParsedLines(parsedLines, c.w - TEXT_PADDING * 2) :
                                parsedLines \in {ParsedLinesOf(c)}}} : TRUE

ParsedWords(n) == [words : [1..n -> Units], indent : {0}, bullet : {FALSE}]

\* Two parsed lines of fixed units, the first a list item, for the inputs
\* that vary the geometry.
SampleParsedLines ==
    [words : {<<>>, <<[ww |-> 2, blank |-> FALSE]>>,
              <<[ww |-> 2, blank |-> FALSE], [ww |-> 1, blank |-> TRUE],
                [ww |-> 2, blank |-> FALSE]>>},
     indent : {1}, bullet : {TRUE}]

\* Contents of a text element: list items, a paragraph, two lines.
SampleContents ==
    {<<"-", " ", "a">>, <<"*", " ", "a", "b", " ", "c">>, <<"a", " ", "b">>,
     <<"-", " ", "a", NL, "b">>}

InitText ==
    /\ \/ \E n \in 0..MaxWords, avail \in 0..MaxAvail : \E pl \in ParsedWords(n) :
            call = [fn |-> "drawText", content |-> Null, charWidth |-> 0,
                    parsedLines |-> <<pl>>, x |-> 0, align |-> "left",
                    w |-> avail + TEXT_PADDING * 2, h |-> 540, y |-> 0,
                    baseFontSize |-> 24, lineHeight |-> 15, verticalAlign |-> "top"]
       \/ \E p1 \in SampleParsedLines, p2 \in SampleParsedLines,
             va \in {"top", "middle", "bottom"}, y0 \in {0, 7}, h0 \in {30, 540},
             size \in {10, 24}, lh \in {10, 15} :
            call = [fn |-> "drawText", content |-> Null, charWidth |-> 0,
                    parsedLines |-> <<p1, p2>>, x |-> 0, align |-> "left",
                    w |-> 3 + TEXT_PADDING * 2, h |-> h0, y |-> y0,
                    baseFontSize |-> size, lineHeight |-> lh, verticalAlign |-> va]
       \/ \E src \in SampleContents, al \in {"left", "center", "right"},
             x0 \in {0, 5}, w0 \in {30, 40}, size \in {10, 24}, cw \in {1, 6} :
            call = [fn |-> "drawText", content |-> Some(src), charWidth |-> cw,
                    parsedLines |-> <<>>, x |-> x0, align |-> al,
                    w |-> w0, h |-> 540, y |-> 0,
                    baseFontSize |-> size, lineHeight |-> 15, verticalAlign |-> "top"]
    /\ returned = Null
    /\ deck = <<>> /\ doc = <<>> /\ pc = "idle" /\ i = 0 /\ k = 0
    /\ tasks = {} /\ error = "none" /\ failed = {}
    /\ callNo = 0 /\ responses = {} /\ firstCall = Null
    /\ impl = "none" /\ source = <<>> /\ lineNo = 0 /\ parsed = <<>>
    /\ mathBuf = Null /\ mdPc = "idle"
    /\ rFn = "none" /\ rPc = "idle" /\ rIn = <<>> /\ rWrappers = 0
    /\ rBlobUrls = 0 /\ rResult = Null

\* drawText, from the parse of the content to the last drawn line
drawTextLayout ==
    /\ call.fn = "drawText"
    /\ returned = Null
    /\ returned' = Some(TextLayout(call))
    /\ UNCHANGED <<call, pdfVars, mdVars, rasterVars>>

NextText ==
    \/ drawTextLayout

SpecText == InitText /\ [][NextText]_vars

(***************************************************************************)
(* computeSteps of animationSteps.ts (specification SpecSteps)             *)
(***************************************************************************)

MaxAnims == 4      \* animations of an input that varies triggers and orders
MaxTimed == 3      \* animations of an input that varies delays and durations

DEFAULT_DURATION == 500

\* An animation object; id is its identity (its place in the input array),
\* order, delay and duration are Null (undefined) or Some(number).
Animation(id, trigger, order, delay, duration) ==
    [id |-> id, trigger |-> trigger, order |-> order, delay |-> delay, duration |-> duration]

TriggerOrders ==
    {<<"onEnter", Null>>, <<"onKey", Null>>, <<"withPrevious", Null>>,
     <<"afterPrevious", Null>>, <<"onClick", Null>>, <<"onClick", Some(0)>>,
     <<"onClick", Some(1)>>}

Timings ==
    {"onClick", "withPrevious", "afterPrevious"} \X {Null, Some(100)} \X {Null, Some(300)}

IsNumbered(anim) == anim.trigger = "onClick" /\ anim.order # Null

\* orderGroups.get(order): the onClick animations of that order, in array order
OrderGroup(animations, order) ==
    SelectSeq(animations, LAMBDA a : IsNumbered(a) /\ a.order = order)

FirstOfOrderEvery(animations, n) == TRUE

\* !orderGroupEmitted.has(anim.order) when the loop is at animations[n]
FirstOfOrder(animations, n) ==
    \A j \in 1..(n - 1) : ~(IsNumbered(animations[j]) /\ animations[j].order = animations[n].order)

\* buildSequence: the items of the first n animations
RECURSIVE buildSequence(_, _)
buildSequence(animations, n) ==
    IF n = 0 THEN <<>>
    ELSE LET anim == animations[n]
             items == buildSequence(animations, n - 1)
         IN CASE IsNumbered(anim) ->
                   IF FirstOfOrder(animations, n)
                     THEN Append(items, [trigger |-> "onClick",
                                         anims |-> OrderGroup(animations, anim.order)])
                     ELSE items
              [] anim.trigger \in {"onClick", "onKey", "withPrevious", "afterPrevious"} ->
                   Append(items, [trigger |-> anim.trigger, anims |-> <<anim>>])
              [] OTHER -> items

AnimationStep(trigger, animations) ==
    [trigger |-> trigger, animations |-> animations, delayOverrides |-> <<>>]

\* Phase 2 of computeSteps: the steps formed by the first n items
RECURSIVE FormSteps(_, _)
FormSteps(sequence, n) ==
    IF n = 0 THEN <<>>
    ELSE LET item == sequence[n]
             steps == FormSteps(sequence, n - 1)
         IN IF item.trigger \in {"onClick", "onKey"}
              THEN Append(steps, AnimationStep(item.trigger, item.anims))
              ELSE LET open == IF steps = <<>> THEN <<AnimationStep("onClick", <<>>)>>
                               ELSE steps
                   IN [open EXCEPT ![Len(open)].animations = @ \o item.anims]

ValueOr(opt, default) == IF opt = Null THEN default ELSE opt[1]

OwnDelayIgnored(anim) == 0

\* anim.delay ?? 0
OwnDelay(anim) == ValueOr(anim.delay, 0)

\* computeDelaysForStep: [prevEnd, overrides] after the first n animations;
\* overrides maps the id of an animation to its delay.
RECURSIVE DelaysOf(_, _)
DelaysOf(anims, n) ==
    IF n = 0 THEN [prevEnd |-> 0, overrides |-> <<>>]
    ELSE LET anim == anims[n]
             before == DelaysOf(anims, n - 1)
         IN IF anim.trigger = "afterPrevious"
              THEN LET computedDelay == before.prevEnd + OwnDelay(anim)
                   IN [prevEnd |-> computedDelay + ValueOr(anim.duration, DEFAULT_DURATION),
                       overrides |-> [id \in DOMAIN before.overrides \cup {anim.id} |->
                                         IF id = anim.id THEN computedDelay
                                         ELSE before.overrides[id]]]
              ELSE [prevEnd |-> OwnDelay(anim) + ValueOr(anim.duration, DEFAULT_DURATION),
                    overrides |-> before.overrides]

computeDelaysForStep(step) ==
    [step EXCEPT !.delayOverrides = DelaysOf(step.animations, Len(step.animations)).overrides]

computeSteps(animations) ==
    LET nonEnter == SelectSeq(animations, LAMBDA a : a.trigger # "onEnter")
        sequence == buildSequence(nonEnter, Len(nonEnter))
        steps == FormSteps(sequence, Len(sequence))
    IN IF nonEnter = <<>> THEN <<>>
       ELSE [j \in 1..Len(steps) |-> computeDelaysForStep(steps[j])]

InitSteps ==
    /\ \/ \E n \in 0..MaxAnims : \E tr \in [1..n -> TriggerOrders] :
            call = [fn |-> "computeSteps",
                    animations |-> [j \in 1..n |-> Animation(j, tr[j][1], tr[j][2], Null, Null)]]
       \/ \E n \in 0..MaxTimed : \E tm \in [1..n -> Timings] :
            call = [fn |-> "computeSteps",
                    animations |-> [j \in 1..n |-> Animation(j, tm[j][1], Null, tm[j][2], tm[j][3])]]
    /\ returned = Null
    /\ deck = <<>> /\ doc = <<>> /\ pc = "idle" /\ i = 0 /\ k = 0
    /\ tasks = {} /\ error = "none" /\ failed = {}
    /\ callNo = 0 /\ responses = {} /\ firstCall = Null
    /\ impl = "none" /\ source = <<>> /\ lineNo = 0 /\ parsed = <<>>
    /\ mathBuf = Null /\ mdPc = "idle"
    /\ rFn = "none" /\ rPc = "idle" /\ rIn = <<>> /\ rWrappers = 0
    /\ rBlobUrls = 0 /\ rResult = Null

computeStepsReturn ==
    /\ call.fn = "computeSteps"
    /\ returned = Null
    /\ returned' = Some(computeSteps(call.animations))
    /\ UNCHANGED <<call, pdfVars, mdVars, rasterVars>>

NextSteps ==
    \/ computeStepsReturn

SpecSteps == InitSteps /\ [][NextSteps]_vars

(***************************************************************************)
(* parseInlineMarkdown as one call (specification SpecInline)              *)
(***************************************************************************)

MaxText == 6

InlineChars == {"*", Backtick, "$", "a"}

InitInline ==
    /\ \E n \in 0..MaxText : \E t \in [1..n -> InlineChars] :
          call = [fn |-> "parseInlineMarkdown", text |-> t]
    /\ returned = Null
    /\ deck = <<>> /\ doc = <<>> /\ pc = "idle" /\ i = 0 /\ k = 0
    /\ tasks = {} /\ error = "none" /\ failed = {}
    /\ callNo = 0 /\ responses = {} /\ firstCall = Null
    /\ impl = "none" /\ source = <<>> /\ lineNo = 0 /\ parsed = <<>>
    /\ mathBuf = Null /\ mdPc = "idle"
    /\ rFn = "none" /\ rPc = "idle" /\ rIn = <<>> /\ rWrappers = 0
    /\ rBlobUrls = 0 /\ rResult = Null

parseInlineMarkdownReturn ==
    /\ call.fn = "parseInlineMarkdown"
    /\ returned = Null
    /\ returned' = Some(parseInlineMarkdown(call.text))
    /\ UNCHANGED <<call, pdfVars, mdVars, rasterVars>>

NextInline ==
    \/ parseInlineMarkdownReturn

SpecInline == InitInline /\ [][NextInline]_vars

(***************************************************************************)
(* Claims about parseInlineMarkdown (specification SpecInline)             *)
(***************************************************************************)

MarkOf(run) ==
    CASE run.bold -> <<"*", "*">>
      [] run.italic -> <<"*">>
      [] run.code -> <<Backtick>>
      [] run.math -> <<"$">>
      [] OTHER -> <<>>

\* The runs written back as markdown: each flagged run between its markers.
RECURSIVE Remarked(_)
Remarked(runs) ==
    IF runs = <<>> THEN <<>>
    ELSE MarkOf(runs[1]) \o runs[1].text \o MarkOf(runs[1]) \o Remarked(Tail(runs))

\* C11: the texts of the runs of parseInlineMarkdown, each flagged run put back
\* between the markers of its kind, spell the input (so the concatenated run
\* texts are the input without the markers of the matched spans), and no run
\* has empty text unless the input is the empty string.
C11_RunsSpellInput ==
    (call.fn = "parseInlineMarkdown" /\ returned # Null) =>
        LET runs == returned[1]
        IN /\ Remarked(runs) = call.text
           /\ \A j \in 1..Len(runs) : runs[j].text = <<>> => call.text = <<>>

C11_Witness ==
    /\ call.fn = "parseInlineMarkdown"
    /\ call.text = <<"a", "*", "*", "a", "*", "*">>
    /\ returned # Null
    /\ Len(returned[1]) = 2
    /\ returned[1][2].bold
    /\ returned[1][2].text = <<"a">>

\* A delimiter pair of mark opens at position p of text: the mark occurs at
\* p and again after at least one more character.
PairOpensAt(text, mark, p) ==
    /\ OccursAt(text, mark, p)
    /\ \E q \in (p + Len(mark) + 1)..Len(text) : OccursAt(text, mark, q)

InlineMarks == {<<"*", "*">>, <<"*">>, <<Backtick>>, <<"$">>}

PairPositions(text) ==
    {p \in 1..Len(text) : \E mark \in InlineMarks : PairOpensAt(text, mark, p)}

FlagCount(run) ==
    Cardinality({f \in {"bold", "italic", "code", "math"} : run[f]})

\* C12: an input without a delimiter pair (the empty string included) returns
\* one run holding the whole input with all four flags false; every run has at
\* most one flag set; where the leftmost pair is a "**" pair the span is a
\* bold run, not an italic one.
C12_PlainAndExclusive ==
    (call.fn = "parseInlineMarkdown" /\ returned # Null) =>
        LET runs == returned[1]
            text == call.text
            ps == PairPositions(text)
        IN /\ ps = {} => (Len(runs) = 1 /\ runs[1].text = text /\ FlagCount(runs[1]) = 0)
           /\ \A j \in 1..Len(runs) : FlagCount(runs[j]) <= 1
           /\ ps # {} =>
                LET p == CHOOSE x \in ps : \A y \in ps : x <= y
                    first == IF p > 1 THEN 2 ELSE 1
                IN PairOpensAt(text, <<"*", "*">>, p) =>
                     (Len(runs) >= first /\ runs[first].bold /\ ~runs[first].italic)

C12_Witness ==
    /\ call.fn = "parseInlineMarkdown"
    /\ call.text = <<"*", "*", "a", "$">>
    /\ returned # Null
    /\ Len(returned[1]) = 1
    /\ returned[1][1].text = call.text
    /\ ~returned[1][1].italic

(***************************************************************************)
(* Claims about parseShikiHtml (specification SpecShiki)                   *)
(***************************************************************************)

RECURSIVE TokenText(_)
TokenText(tokens) ==
    IF tokens = <<>> THEN <<>> ELSE tokens[1].text \o TokenText(Tail(tokens))

\* C13: for markup that is the HTML-escaped source with one line span per
\* source line, parseShikiHtml (either implementation) returns as many token
\* lines as the source has lines, and the token texts of line j concatenate to
\* source line j, whatever characters the source holds.
C13_TokensSpellSource ==
    (call.fn = "parseShikiHtml" /\ call.from = "code" /\ returned # Null) =>
        LET ls == Split(call.code)
            tokenLines == returned[1]
        IN /\ Len(tokenLines) = Len(ls)
           /\ \A j \in 1..Len(ls) : TokenText(tokenLines[j]) = ls[j]

\* The tokens the segments of one line call for: a token per color-tagged
\* span, and a default-colored token per non-empty stretch of text around them.
RECURSIVE SegmentTokens(_, _)
SegmentTokens(segs, stretch) ==
    LET flush == IF stretch = <<>> THEN <<>> ELSE <<CodeToken(stretch, DEFAULT_CODE_FG)>>
    IN IF segs = <<>> THEN flush
       ELSE IF segs[1].kind = "span"
         THEN flush \o <<CodeToken(segs[1].text, segs[1].color)>>
                \o SegmentTokens(Tail(segs), <<>>)
         ELSE SegmentTokens(Tail(segs), stretch \o segs[1].text)

\* C14: parseShikiHtml of shikiTokenParser.ts returns, for each line, the
\* tokens in left-to-right order: one per color-tagged span with that span's
\* color and one with DEFAULT_CODE_FG per non-empty stretch of text before,
\* between or after the spans; markup without a code tag returns no lines.
C14_TokensInOrder ==
    (call.fn = "parseShikiHtml" /\ call.impl = "shared" /\ returned # Null) =>
        /\ call.from = "segments" =>
             returned[1] = [j \in 1..Len(call.segs) |-> SegmentTokens(call.segs[j], <<>>)]
        /\ call.from = "other" => returned[1] = <<>>

C14_Witness ==
    /\ call.fn = "parseShikiHtml" /\ call.impl = "shared" /\ call.from = "segments"
    /\ Len(call.segs) = 2 /\ Len(call.segs[1]) = 3
    /\ call.segs[1][1].kind = "text" /\ call.segs[1][2].kind = "span"
    /\ call.segs[1][3].kind = "text"
    /\ returned # Null
    /\ Len(returned[1]) = 2
    /\ Len(returned[1][1]) = 3
    /\ returned[1][1][1].color = DEFAULT_CODE_FG
    /\ returned[1][1][2].color = call.segs[1][2].color

(***************************************************************************)
(* Claims about resolveStyle (specification SpecStyle)                     *)
(***************************************************************************)

\* The own properties of an argument that may be undefined.
FieldsOf(arg) == IF arg = Null THEN {} ELSE DOMAIN arg[1]

\* C15: resolveStyle returns a style whose fields are those of the element
\* style, with the element's values, and those only the theme style has, with
\* the theme's values, and no others; the arguments are left as they were; the
\* export-side function and the renderer-side function return the same value
\* for the same arguments.
C15_ElementOverTheme ==
    [][(call.fn = "resolveStyle" /\ returned = Null /\ returned' # Null) =>
         LET style == returned'[1]
         IN /\ call' = call
            /\ DOMAIN style = FieldsOf(call.theme) \cup FieldsOf(call.element)
            /\ \A f \in FieldsOf(call.element) : style[f] = call.element[1][f]
            /\ \A f \in FieldsOf(call.theme) \ FieldsOf(call.element) :
                  style[f] = call.theme[1][f]
            /\ style = resolveStyle(call.theme, call.element)
            /\ style = themeResolveStyle(call.theme, call.element)]_vars

C15_Witness ==
    /\ call.fn = "resolveStyle" /\ call.side = "export"
    /\ call.theme = Some([f \in {"color", "fontSize"} |-> "a"])
    /\ call.element = Some([f \in {"color"} |-> "b"])
    /\ returned # Null
    /\ returned[1]["color"] = "b"
    /\ returned[1]["fontSize"] = "a"

(***************************************************************************)
(* Claims about the layout of drawText (specification SpecText)            *)
(***************************************************************************)

RECURSIVE SumWidths(_)
SumWidths(segments) ==
    IF segments = <<>> THEN 0 ELSE segments[1].ww + SumWidths(Tail(segments))

\* C16: the measured widths of the units on a visual line sum to no more than
\* the available width of the line (box width minus padding minus indent),
\* unless the line holds exactly one unit and that unit alone is wider.
C16_WrapWithinWidth ==
    (call.fn = "drawText" /\ returned # Null) =>
        \A j \in 1..Len(returned[1].visualLines) :
            LET vl == returned[1].visualLines[j]
                availWidth == call.w - 2 * TEXT_PADDING - vl.indent
            IN \/ SumWidths(vl.segments) <= availWidth
               \/ Len(vl.segments) = 1 /\ vl.segments[1].ww > availWidth

C16_Witness ==
    /\ call.fn = "drawText" /\ returned # Null
    /\ call.w - 2 * TEXT_PADDING = 2
    /\ Len(call.parsedLines) = 1 /\ call.parsedLines[1].indent = 0
    /\ Len(call.parsedLines[1].words) = 3
    /\ call.parsedLines[1].words[1].ww = 3
    /\ call.parsedLines[1].words[2].ww = 1
    /\ call.parsedLines[1].words[3] = [ww |-> 1, blank |-> FALSE]
    /\ Len(returned[1].visualLines) = 2
    /\ Len(returned[1].visualLines[1].segments) = 1
    /\ Len(returned[1].visualLines[2].segments) = 2

\* C20: the total block height is lineHeight x base font size x number of
\* visual lines, and the first baseline is y + 4 + base size for top,
\* y + (h - total height) / 2 + base size for middle, and
\* y + h - total height + base size - 4 for bottom (heights in tenths, the
\* baseline in twentieths); with h = 540, total height 100 and base size 24
\* the baselines are y + 28, y + 244 and y + 460.
C20_VerticalStart ==
    (call.fn = "drawText" /\ returned # Null) =>
        LET n == Len(returned[1].visualLines)
            total10 == call.lineHeight * call.baseFontSize * n
            startY20 == returned[1].startY
        IN /\ returned[1].totalHeight = total10
           /\ call.verticalAlign = "top" =>
                 startY20 = 20 * (call.y + 4 + call.baseFontSize)
           /\ call.verticalAlign = "middle" =>
                 startY20 = 20 * call.y + 10 * call.h - total10 + 20 * call.baseFontSize
           /\ call.verticalAlign = "bottom" =>
                 startY20 = 20 * (call.y + call.h + call.baseFontSize - 4) - 2 * total10
           /\ StartY("top", call.y, 540, 1000, 24) = 20 * (call.y + 28)
           /\ StartY("middle", call.y, 540, 1000, 24) = 20 * (call.y + 244)
           /\ StartY("bottom", call.y, 540, 1000, 24) = 20 * (call.y + 460)

C20_Witness ==
    /\ call.fn = "drawText" /\ returned # Null
    /\ call.verticalAlign = "middle" /\ call.y = 7 /\ call.h = 540
    /\ call.baseFontSize = 24 /\ call.lineHeight = 15
    /\ Len(returned[1].visualLines) = 3
    /\ returned[1].totalHeight = 1080
    /\ returned[1].startY = 20 * 7 + 5400 - 1080 + 480

(***************************************************************************)
(* Claims about computeSteps (specification SpecSteps)                     *)
(***************************************************************************)

IsFollower(anim) == anim.trigger \in {"withPrevious", "afterPrevious"}

\* The animation at place p of the array A starts a step: an onKey animation,
\* an onClick animation without an order, or the first onClick animation of
\* its order.
IsStarter(A, p) ==
    \/ A[p].trigger = "onKey"
    \/ /\ A[p].trigger = "onClick"
       /\ \/ A[p].order = Null
          \/ \A r \in 1..(p - 1) : ~(A[r].trigger = "onClick" /\ A[r].order = A[p].order)

\* The withPrevious and afterPrevious animations after place p (0: the start
\* of the array) and before the next animation that starts a step.
FollowersOf(A, p) ==
    SelectSeq(A, LAMBDA a : /\ IsFollower(a)
                            /\ a.id > p
                            /\ \A r \in (p + 1)..(a.id - 1) : ~IsStarter(A, r))

StartedBy(A, p) ==
    IF A[p].trigger = "onClick" /\ A[p].order # Null
      THEN SelectSeq(A, LAMBDA a : a.trigger = "onClick" /\ a.order = A[p].order)
      ELSE <<A[p]>>

C19_DelayOverrides ==
    (call.fn = "computeSteps" /\ returned # Null) =>
        \A j \in 1..Len(returned[1]) :
            LET anims == returned[1][j].animations
                over == returned[1][j].delayOverrides
                EndOf(m) ==
                    IF m = 0 THEN 0
                    ELSE (IF anims[m].trigger = "afterPrevious" THEN over[anims[m].id]
                          ELSE (IF anims[m].delay = Null THEN 0 ELSE anims[m].delay[1]))
                         + (IF anims[m].duration = Null THEN 500 ELSE anims[m].duration[1])
            IN /\ DOMAIN over = {anims[m].id : m \in {n \in 1..Len(anims) :
                                                        anims[n].trigger = "afterPrevious"}}
               /\ \A m \in 1..Len(anims) :
                     anims[m].trigger = "afterPrevious" =>
                        over[anims[m].id] = EndOf(m - 1)
                                              + (IF anims[m].delay = Null THEN 0
                                                 ELSE anims[m].delay[1])

C19_Witness ==
    /\ call.fn = "computeSteps" /\ returned # Null
    /\ Len(call.animations) = 3
    /\ call.animations[1] = Animation(1, "onClick", Null, Some(100), Some(300))
    /\ call.animations[2] = Animation(2, "afterPrevious", Null, Some(100), Null)
    /\ call.animations[3] = Animation(3, "afterPrevious", Null, Null, Some(300))
    /\ Len(returned[1]) = 1
    /\ returned[1][1].delayOverrides[2] = 500
    /\ returned[1][1].delayOverrides[3] = 1000

(***************************************************************************)
(* Claims about what drawText draws (specification SpecText)               *)
(***************************************************************************)

\* The baseline of visual line j (counted from 1), in twentieths
BaselineOf(j) ==
    returned[1].startY + (j - 1) * 2 * (call.baseFontSize * call.lineHeight)

\* C21: drawText draws, in order, exactly the visual lines whose baseline is
\* not below the bottom edge y + h of the box, each with its own segments and
\* bullet flag; a line whose baseline is below the edge is not drawn, and the
\* call returns normally, whatever the vertical alignment.
C21_ClipsBelowBox ==
    (call.fn = "drawText" /\ returned # Null) =>
        LET vis == returned[1].visualLines
            d == returned[1].drawn
            inside == {j \in 1..Len(vis) : BaselineOf(j) <= 20 * (call.y + call.h)}
        IN /\ Len(d) = Cardinality(inside)
           /\ \A m \in 1..Len(d) :
                /\ d[m].line \in inside
                /\ d[m].lineY = BaselineOf(d[m].line)
                /\ d[m].segments = vis[d[m].line].segments
                /\ d[m].bullet = vis[d[m].line].bullet
                /\ m < Len(d) => d[m].line < d[m + 1].line

C21_Witness ==
    /\ call.fn = "drawText" /\ returned # Null
    /\ call.verticalAlign = "middle" /\ call.h = 30
    /\ Len(returned[1].visualLines) = 4
    /\ Len(returned[1].drawn) = 2
    /\ returned[1].drawn[1].bullet
    /\ BaselineOf(3) > 20 * (call.y + call.h)

\* C23: for a text element laid out from its content, every bulleted line
\* has the indent 1.5 x base font size, never the sentinel -1, and a
\* left-aligned bulleted line starts at x + padding + that indent.
C23_BulletIndentResolved ==
    (call.fn = "drawText" /\ call.content # Null /\ returned # Null) =>
        /\ \A j \in 1..Len(returned[1].visualLines) :
              returned[1].visualLines[j].bullet =>
                 /\ returned[1].visualLines[j].indent # -1
                 /\ 2 * returned[1].visualLines[j].indent = 3 * call.baseFontSize
        /\ \A m \in 1..Len(returned[1].drawn) :
              (returned[1].drawn[m].bullet /\ call.align = "left") =>
                 returned[1].drawn[m].lineX
                    = 2 * (call.x + TEXT_PADDING) + 3 * call.baseFontSize

RECURSIVE ConcatAll(_)
ConcatAll(seqs) == IF seqs = <<>> THEN <<>> ELSE seqs[1] \o ConcatAll(Tail(seqs))

\* The sequence W without the places in D
Without(W, D) ==
    LET kept == (1..Len(W)) \ D
    IN [n \in 1..Cardinality(kept) |->
          W[CHOOSE p \in kept : Cardinality({q \in kept : q <= p}) = n]]

\* C25: the units on the visual lines, read line after line, are the units
\* of the parsed lines in source order with some whitespace-only units left
\* out; every unit left out sits where a visual line ended and another line
\* of the same parsed line would begin; no visual line is empty.
C25_WrapKeepsWords ==
    (call.fn = "drawText" /\ returned # Null) =>
        LET pls == ParsedLinesOf(call)
            vis == returned[1].visualLines
            W == ConcatAll([j \in 1..Len(pls) |-> pls[j].words])
            F == ConcatAll([j \in 1..Len(vis) |-> vis[j].segments])
            lineEnds == {Len(ConcatAll([j \in 1..m |-> vis[j].segments])) : m \in 1..Len(vis)}
            lineStarts == {1 + Len(ConcatAll([j \in 1..m |-> pls[j].words])) : m \in 0..Len(pls)}
        IN /\ \A j \in 1..Len(vis) : vis[j].segments # <<>>
           /\ \E D \in SUBSET (1..Len(W)) :
                /\ F = Without(W, D)
                /\ \A d \in D :
                      /\ W[d].blank
                      /\ d \notin lineStarts
                      /\ Cardinality({q \in 1..(d - 1) : q \notin D}) \in lineEnds

C25_Witness ==
    /\ call.fn = "drawText" /\ returned # Null
    /\ Len(call.parsedLines) = 1
    /\ Len(call.parsedLines[1].words) = 3
    /\ ~call.parsedLines[1].words[1].blank
    /\ call.parsedLines[1].words[2].blank
    /\ ~call.parsedLines[1].words[3].blank
    /\ Len(returned[1].visualLines) = 2
    /\ returned[1].visualLines[1].segments = <<call.parsedLines[1].words[1]>>
    /\ returned[1].visualLines[2].segments = <<call.parsedLines[1].words[3]>>

(***************************************************************************)
(* mapFont and the font resolution of drawText (specification SpecFont)    *)
(***************************************************************************)

MaxPieces == 2     \* pieces a font family string is assembled from

UpperCase == <<"A", "B", "C", "D", "E", "F", "G", "H", "I", "J", "K", "L", "M", "N", "O", "P", "Q", "R", "S", "T", "U", "V", "W", "X", "Y", "Z">>
LowerCase == <<"a", "b", "c", "d", "e", "f", "g", "h", "i", "j", "k", "l", "m", "n", "o", "p", "q", "r", "s", "t", "u", "v", "w", "x", "y", "z">>

toLowerCaseKeepsCase(s) == s

\* fontFamily.toLowerCase()
toLowerCase(s) ==
    [j \in 1..Len(s) |->
        IF \E n \in 1..Len(UpperCase) : UpperCase[n] = s[j]
          THEN LowerCase[CHOOSE n \in 1..Len(UpperCase) : UpperCase[n] = s[j]]
          ELSE s[j]]

\* lower.includes(keyword)
Includes(s, keyword) == IndexOf(s, keyword, 1) # 0

mapFont(fontFamily) ==
    LET lower == toLowerCase(fontFamily)
    IN IF \/ Includes(lower, <<"c", "o", "u", "r", "i", "e", "r">>)
          \/ Includes(lower, <<"m", "o", "n", "o">>)
          \/ Includes(lower, <<"f", "i", "r", "a">>)
         THEN "courier"
       ELSE IF Includes(lower, <<"t", "i", "m", "e", "s">>) \/ Includes(lower, <<"s", "e", "r", "i", "f">>)
         THEN "times"
       ELSE "helvetica"

DEFAULT_TEXT_FONT ==
    <<"I", "n", "t", "e", "r", ",", " ", "s", "y", "s", "t", "e", "m", "-", "u", "i", ",", " ", "s", "a", "n", "s", "-">>
      \o <<"s", "e", "r", "i", "f">>

\* const s = resolveStyle(deck.theme?.text, el.style);
\* const fontFamily = s.fontFamily ?? DEFAULT_TEXT_FONT;
\* const pdfFont = mapFont(fontFamily)
drawTextFont(theme, element) ==
    LET st == resolveStyle(theme, element)
        fontFamily == IF "fontFamily" \in DOMAIN st THEN st["fontFamily"]
                      ELSE DEFAULT_TEXT_FONT
    IN mapFont(fontFamily)

FontPieces ==
    {<<"C", "o", "u", "r", "i", "e", "r">>, <<"M", "O", "N", "O">>, <<"F", "i", "r", "a">>, <<"T", "i", "m", "e", "s">>, <<"S", "E", "R", "I", "F">>,
     <<"s", "e", "r", "i", "f">>, <<"s", "a", "n", "s", "-">>, <<"I", "n", "t", "e", "r">>, <<",", " ">>, <<"M", "o">>, <<"n", "o">>, <<"x">>}

FontFamilies ==
    {ConcatAll(ps) : ps \in UNION {[1..n -> FontPieces] : n \in 0..MaxPieces}}

\* Text styles: without a font family or with one of three.
FontStyles ==
    {Spread(<<>>, <<>>)}
      \cup {[f \in {"fontFamily"} |-> fam] :
               fam \in {<<"G", "e", "o", "r", "g", "i", "a", ",", " ", "s", "e", "r", "i", "f">>, <<"F", "i", "r", "a", " ", "C", "o", "d", "e">>, <<"A", "r", "i", "a", "l">>}}

InitFont ==
    /\ \/ \E fam \in FontFamilies \cup {DEFAULT_TEXT_FONT} :
            call = [fn |-> "mapFont", fontFamily |-> fam]
       \/ \E theme \in {Null} \cup {Some(st) : st \in FontStyles},
             element \in {Null} \cup {Some(st) : st \in FontStyles} :
            call = [fn |-> "drawTextFont", theme |-> theme, element |-> element]
    /\ returned = Null
    /\ deck = <<>> /\ doc = <<>> /\ pc = "idle" /\ i = 0 /\ k = 0
    /\ tasks = {} /\ error = "none" /\ failed = {}
    /\ callNo = 0 /\ responses = {} /\ firstCall = Null
    /\ impl = "none" /\ source = <<>> /\ lineNo = 0 /\ parsed = <<>>
    /\ mathBuf = Null /\ mdPc = "idle"
    /\ rFn = "none" /\ rPc = "idle" /\ rIn = <<>> /\ rWrappers = 0
    /\ rBlobUrls = 0 /\ rResult = Null

mapFontReturn ==
    /\ call.fn = "mapFont"
    /\ returned = Null
    /\ returned' = Some(mapFont(call.fontFamily))
    /\ UNCHANGED <<call, pdfVars, mdVars, rasterVars>>

drawTextFontReturn ==
    /\ call.fn = "drawTextFont"
    /\ returned = Null
    /\ returned' = Some(drawTextFont(call.theme, call.element))
    /\ UNCHANGED <<call, pdfVars, mdVars, rasterVars>>

NextFont ==
    \/ mapFontReturn
    \/ drawTextFontReturn

SpecFont == InitFont /\ [][NextFont]_vars

(***************************************************************************)
(* Claims about mapFont (specification SpecFont)                           *)
(***************************************************************************)

\* The characters a and b are the same letter in either case, or equal.
SameIgnoringCase(a, b) ==
    \/ a = b
    \/ \E n \in 1..Len(UpperCase) : {a, b} = {UpperCase[n], LowerCase[n]}

ContainsIgnoringCase(s, keyword) ==
    \E at \in 1..(Len(s) - Len(keyword) + 1) :
        \A j \in 1..Len(keyword) : SameIgnoringCase(s[at + j - 1], keyword[j])

C26_DefaultFontIsSans ==
    (/\ call.fn = "drawTextFont" /\ returned # Null
     /\ (call.theme = Null \/ "fontFamily" \notin DOMAIN call.theme[1])
     /\ (call.element = Null \/ "fontFamily" \notin DOMAIN call.element[1]))
        => returned[1] = "helvetica"

(***************************************************************************)
(* drawShape (specification SpecShape).  Coordinates of the drawing        *)
(* commands are held in halves, as h / 2 and w / 2 occur.                  *)
(***************************************************************************)

MaxCoord == 2      \* x and y of a shape: 0..MaxCoord
MaxSize == 2       \* w and h of a shape: 0..MaxSize

HEAD_SIZE == 10

\* s.field ?? default
StyleOr(st, field, default) == IF field \in DOMAIN st THEN st[field] ELSE default

ArrowHeadSquare(tipX2, tipY2, mode) ==
    [op |-> "triangle", x1 |-> tipX2, y1 |-> tipY2,
     x2 |-> tipX2 - 2 * HEAD_SIZE, y2 |-> tipY2 - 2 * HEAD_SIZE,
     x3 |-> tipX2 - 2 * HEAD_SIZE, y3 |-> tipY2 + 2 * HEAD_SIZE, mode |-> mode]

\* doc.triangle(tipX, tipY, tipX - headSize, tipY - headSize / 2,
\*              tipX - headSize, tipY + headSize / 2, "F")
ArrowHead(tipX2, tipY2, mode) ==
    [op |-> "triangle", x1 |-> tipX2, y1 |-> tipY2,
     x2 |-> tipX2 - 2 * HEAD_SIZE, y2 |-> tipY2 - HEAD_SIZE,
     x3 |-> tipX2 - 2 * HEAD_SIZE, y3 |-> tipY2 + HEAD_SIZE, mode |-> mode]

\* doc.line(x, y + h / 2, x + w, y + h / 2)
MidLine(x, y, w, h) ==
    [op |-> "line", x1 |-> 2 * x, y1 |-> 2 * y + h, x2 |-> 2 * (x + w), y2 |-> 2 * y + h]

\* The commands drawShape issues for the element el under the theme style.
drawShapeCommands(el, theme) ==
    LET st == resolveStyle(theme, el.style)
        fill == StyleOr(st, "fill", "transparent")
        stroke == StyleOr(st, "stroke", "#ffffff")
        strokeWidth == StyleOr(st, "strokeWidth", 1)
        hasFill == fill # "transparent"
        drawMode == IF hasFill THEN "FD" ELSE "S"
        setFill == IF hasFill THEN <<[op |-> "setFillColor", color |-> fill]>> ELSE <<>>
        radius == StyleOr(st, "borderRadius", 0)
        x == el.x
        y == el.y
        w == el.w
        h == el.h
    IN <<[op |-> "setLineWidth", width |-> strokeWidth],
         [op |-> "setDrawColor", color |-> stroke]>> \o
       CASE el.shape = "rectangle" ->
              setFill \o
              (IF radius > 0
                 THEN <<[op |-> "roundedRect", x |-> 2 * x, y |-> 2 * y, w |-> 2 * w,
                         h |-> 2 * h, rx |-> 2 * radius, ry |-> 2 * radius,
                         mode |-> drawMode]>>
                 ELSE <<[op |-> "rect", x |-> 2 * x, y |-> 2 * y, w |-> 2 * w,
                         h |-> 2 * h, mode |-> drawMode]>>)
         [] el.shape = "ellipse" ->
              setFill \o
              <<[op |-> "ellipse", x |-> 2 * x + w, y |-> 2 * y + h, rx |-> w, ry |-> h,
                 mode |-> drawMode]>>
         [] el.shape = "line" -> <<MidLine(x, y, w, h)>>
         [] el.shape = "arrow" ->
              <<MidLine(x, y, w, h),
                [op |-> "setFillColor", color |-> stroke],
                ArrowHead(2 * (x + w), 2 * y + h, "F")>>
         [] OTHER -> <<>>

\* Shape styles of a theme or an element
ShapeStyles ==
    {Spread(<<>>, <<>>),
     [f \in {"stroke"} |-> "#00ff00"],
     [f \in {"fill"} |-> "transparent"],
     [f \in {"fill"} |-> "#ff0000"],
     [f \in {"fill", "borderRadius"} |-> IF f = "fill" THEN "#ff0000" ELSE 4]}

InitShape ==
    /\ \E shape \in {"rectangle", "ellipse", "line", "arrow"},
          x \in 0..MaxCoord, y \in 0..MaxCoord, w \in 0..MaxSize, h \in 0..MaxSize,
          theme \in {Null, Some([f \in {"stroke"} |-> "#00ff00"])},
          style \in {Null} \cup {Some(st) : st \in ShapeStyles} :
            call = [fn |-> "drawShape", theme |-> theme,
                    el |-> [shape |-> shape, x |-> x, y |-> y, w |-> w, h |-> h,
                            style |-> style]]
    /\ returned = Null
    /\ deck = <<>> /\ doc = <<>> /\ pc = "idle" /\ i = 0 /\ k = 0
    /\ tasks = {} /\ error = "none" /\ failed = {}
    /\ callNo = 0 /\ responses = {} /\ firstCall = Null
    /\ impl = "none" /\ source = <<>> /\ lineNo = 0 /\ parsed = <<>>
    /\ mathBuf = Null /\ mdPc = "idle"
    /\ rFn = "none" /\ rPc = "idle" /\ rIn = <<>> /\ rWrappers = 0
    /\ rBlobUrls = 0 /\ rResult = Null

drawShapeReturn ==
    /\ call.fn = "drawShape"
    /\ returned = Null
    /\ returned' = Some(drawShapeCommands(call.el, call.theme))
    /\ UNCHANGED <<call, pdfVars, mdVars, rasterVars>>

NextShape ==
    \/ drawShapeReturn

SpecShape == InitShape /\ [][NextShape]_vars

(***************************************************************************)
(* Claims about drawShape (specification SpecShape)                        *)
(***************************************************************************)

\* The line and the triangle drawShape issued for an arrow, with the tip at
\* the end of the line and the back corners dy (in halves) above and below.
ArrowDrawnWith(dy) ==
    LET x == call.el.x
        y == call.el.y
        w == call.el.w
        h == call.el.h
        cmds == returned[1]
        lineCmds == {n \in 1..Len(cmds) : cmds[n].op = "line"}
        headCmds == {n \in 1..Len(cmds) : cmds[n].op = "triangle"}
    IN /\ Cardinality(lineCmds) = 1 /\ Cardinality(headCmds) = 1
       /\ \A n \in lineCmds :
             /\ cmds[n].x1 = 2 * x /\ cmds[n].y1 = 2 * y + h
             /\ cmds[n].x2 = 2 * (x + w) /\ cmds[n].y2 = 2 * y + h
       /\ \A n \in headCmds :
             /\ cmds[n].mode = "F"
             /\ cmds[n].x1 = 2 * (x + w) /\ cmds[n].y1 = 2 * y + h
             /\ cmds[n].x2 = 2 * (x + w) - 20 /\ cmds[n].y2 = 2 * y + h - dy
             /\ cmds[n].x3 = 2 * (x + w) - 20 /\ cmds[n].y3 = 2 * y + h + dy

\* C24 as stated: for an arrow the line runs from (x, y + h/2) to
\* (x + w, y + h/2) and the filled triangle has its tip at (x + w, y + h/2)
\* and its back corners at (tipX - 10, tipY - 10) and (tipX - 10, tipY + 10).
C24_ArrowHeadSquare ==
    (call.fn = "drawShape" /\ call.el.shape = "arrow" /\ returned # Null) =>
        ArrowDrawnWith(20)

\* C24 amended: as above, with the back corners at (tipX - 10, tipY - 5)
\* and (tipX - 10, tipY + 5): the head size along the line, half of it
\* across.
C24_ArrowHeadHalfAcross ==
    (call.fn = "drawShape" /\ call.el.shape = "arrow" /\ returned # Null) =>
        ArrowDrawnWith(10)

C24_Witness ==
    /\ call.fn = "drawShape" /\ call.el.shape = "arrow" /\ returned # Null
    /\ call.el.x = 1 /\ call.el.y = 2 /\ call.el.w = 2 /\ call.el.h = 1
    /\ Len(returned[1]) = 5
    /\ returned[1][5].x2 = -14
    /\ returned[1][5].y2 = -5
    /\ returned[1][5].y3 = 15

(***************************************************************************)
(* The slide background colour of the PDF export (renderSlide) and of the  *)
(* canvas renderer (SlideRenderer) (specification SpecBackground)          *)
(***************************************************************************)

DEFAULT_BG == "#0f172a"

\* a?.field: Null when a is Null or has no such property
Field(a, field) ==
    IF a = Null THEN Null
    ELSE IF field \in DOMAIN a[1] THEN Some(a[1][field]) ELSE Null

\* a ?? b on optional values
Coalesce(a, b) == IF a # Null THEN a ELSE b

\* deck.theme?.slide?.background
ThemeSlideBackground(theme) == Field(Field(theme, "slide"), "background")

\* renderSlide: const bg = slide.background ?? deck.theme?.slide?.background;
\*              const bgColor = bg?.color ?? DEFAULT_BG
exportBgColor(slideBackground, theme) ==
    LET bg == Coalesce(slideBackground, ThemeSlideBackground(theme))
    IN Coalesce(Field(bg, "color"), Some(DEFAULT_BG))[1]

\* SlideRenderer: bg?.color ?? themeBgColor ?? "#0f172a"
rendererBgColor(slideBackground, theme) ==
    LET themeBgColor == Field(ThemeSlideBackground(theme), "color")
    IN Coalesce(Coalesce(Field(slideBackground, "color"), themeBgColor),
                Some("#0f172a"))[1]

\* Background objects with optional color and image
Backgrounds(colors) ==
    {Spread(<<>>, <<>>), [f \in {"image"} |-> "a.png"]}
      \cup {[f \in {"color"} |-> c] : c \in colors}
      \cup {[f \in {"color", "image"} |-> IF f = "color" THEN c ELSE "a.png"] : c \in colors}

Themes ==
    {Null, Some(Spread(<<>>, <<>>)), Some([f \in {"slide"} |-> Spread(<<>>, <<>>)])}
      \cup {Some([f \in {"slide"} |-> [g \in {"background"} |-> bg]]) :
               bg \in Backgrounds({"#111111", "#222222"})}

InitBackground ==
    /\ \E slideBackground \in {Null} \cup {Some(bg) : bg \in Backgrounds({"#aaaaaa", "#bbbbbb"})},
          theme \in Themes :
            call = [fn |-> "background", slideBackground |-> slideBackground,
                    theme |-> theme]
    /\ returned = Null
    /\ deck = <<>> /\ doc = <<>> /\ pc = "idle" /\ i = 0 /\ k = 0
    /\ tasks = {} /\ error = "none" /\ failed = {}
    /\ callNo = 0 /\ responses = {} /\ firstCall = Null
    /\ impl = "none" /\ source = <<>> /\ lineNo = 0 /\ parsed = <<>>
    /\ mathBuf = Null /\ mdPc = "idle"
    /\ rFn = "none" /\ rPc = "idle" /\ rIn = <<>> /\ rWrappers = 0
    /\ rBlobUrls = 0 /\ rResult = Null

\* The colours computed so far, by side
BgColors == IF returned = Null THEN Spread(<<>>, <<>>) ELSE returned[1]

\* the export fills the page
renderSlideBackground ==
    /\ call.fn = "background"
    /\ "export" \notin DOMAIN BgColors
    /\ returned' = Some(Spread(BgColors,
                               [f \in {"export"} |->
                                   exportBgColor(call.slideBackground, call.theme)]))
    /\ UNCHANGED <<call, pdfVars, mdVars, rasterVars>>

\* the canvas renderer styles the slide
SlideRenderer ==
    /\ call.fn = "background"
    /\ "renderer" \notin DOMAIN BgColors
    /\ returned' = Some(Spread(BgColors,
                               [f \in {"renderer"} |->
                                   rendererBgColor(call.slideBackground, call.theme)]))
    /\ UNCHANGED <<call, pdfVars, mdVars, rasterVars>>

NextBackground ==
    \/ renderSlideBackground
    \/ SlideRenderer

SpecBackground == InitBackground /\ [][NextBackground]_vars

(***************************************************************************)
(* Claims about the slide background (specification SpecBackground)        *)
(***************************************************************************)

\* C27: for the same slide (without background, or with a background that
\* has a colour, an image or both) and theme the colour the export fills the page
\* with equals the colour of the canvas renderer: the slide's colour, else
\* the theme's slide background colour, else #0f172a.
C27_SameBackgroundColor ==
    (/\ call.fn = "background" /\ DOMAIN BgColors = {"export", "renderer"}
     /\ (call.slideBackground = Null \/ DOMAIN call.slideBackground[1] # {})) =>
        LET slideHasColor == call.slideBackground # Null
                                /\ "color" \in DOMAIN call.slideBackground[1]
            themeBg == IF call.theme # Null /\ "slide" \in DOMAIN call.theme[1]
                          /\ "background" \in DOMAIN call.theme[1]["slide"]
                         THEN Some(call.theme[1]["slide"]["background"]) ELSE Null
            themeHasColor == themeBg # Null /\ "color" \in DOMAIN themeBg[1]
            expected == IF slideHasColor THEN call.slideBackground[1]["color"]
                        ELSE IF themeHasColor THEN themeBg[1]["color"]
                        ELSE "#0f172a"
        IN /\ BgColors["export"] = BgColors["renderer"]
           /\ BgColors["export"] = expected

(***************************************************************************)
(* Further claims about computeSteps (specification SpecSteps)             *)
(***************************************************************************)

\* The animations of all returned steps, step after step
AllStepAnimations ==
    ConcatAll([j \in 1..Len(returned[1]) |-> returned[1][j].animations])

\* C28: every animation whose trigger is not onEnter occurs exactly once in
\* the returned steps taken together, no onEnter animation occurs in any
\* step, and no returned step has an empty animation list.
C28_EachAnimationOnce ==
    (call.fn = "computeSteps" /\ returned # Null) =>
        LET A == call.animations
            all == AllStepAnimations
        IN /\ \A p \in 1..Len(A) :
                Cardinality({n \in 1..Len(all) : all[n] = A[p]})
                    = (IF A[p].trigger = "onEnter" THEN 0 ELSE 1)
           /\ \A n \in 1..Len(all) : \E p \in 1..Len(A) : all[n] = A[p]
           /\ \A j \in 1..Len(returned[1]) : returned[1][j].animations # <<>>

C28_Witness ==
    /\ call.fn = "computeSteps" /\ returned # Null
    /\ Len(call.animations) = 4
    /\ call.animations[1].trigger = "onEnter"
    /\ call.animations[2].trigger = "onClick" /\ call.animations[2].order = Some(1)
    /\ call.animations[3].trigger = "afterPrevious"
    /\ call.animations[4].trigger = "onClick" /\ call.animations[4].order = Some(1)
    /\ Len(returned[1]) = 1
    /\ Len(returned[1][1].animations) = 3

\* The returned step that holds the animation at place p of the input
StepOf(p) ==
    CHOOSE j \in 1..Len(returned[1]) :
        \E n \in 1..Len(returned[1][j].animations) :
            returned[1][j].animations[n] = call.animations[p]

\* C29: every withPrevious or afterPrevious animation is in the step of the
\* nearest animation before it in the input array that is not onEnter.
C29_FollowsNearestPredecessor ==
    (call.fn = "computeSteps" /\ returned # Null) =>
        LET A == call.animations
        IN \A p \in 1..Len(A) : \A q \in 1..(p - 1) :
              (/\ A[p].trigger \in {"withPrevious", "afterPrevious"}
               /\ A[q].trigger # "onEnter"
               /\ \A r \in (q + 1)..(p - 1) : A[r].trigger = "onEnter")
                 => StepOf(p) = StepOf(q)

(***************************************************************************)
(* The step controller of a presented slide: ViewOnlySlideWithSteps and    *)
(* SlideWithSteps (specification SpecController).  call holds the props of *)
(* the mounted component, returned its React state: the committed          *)
(* activeStep, activeStepRef.current, the queue of state updaters not yet  *)
(* applied, the last request made to the parent and the events so far.     *)
(***************************************************************************)

MaxSteps == 2      \* steps.length of a slide: 0..MaxSteps
MaxEvents == 3     \* key and click events handled in one behaviour

ctl == returned[1]

\* useState(() => (goingBack ? steps.length : 0)); the refs are set by the
\* first render
Mounted(steps, goingBack, events) ==
    [activeStep |-> IF goingBack THEN steps ELSE 0,
     activeStepRef |-> IF goingBack THEN steps ELSE 0,
     queue |-> <<>>, requested |-> "none", lastEvent |-> "none", events |-> events]

InitController ==
    /\ \E component \in {"ViewOnlySlideWithSteps", "SlideWithSteps"},
          steps \in 0..MaxSteps, goingBack \in BOOLEAN :
         /\ call = [fn |-> component, steps |-> steps]
         /\ returned = Some(Mounted(steps, goingBack, 0))
    /\ deck = <<>> /\ doc = <<>> /\ pc = "idle" /\ i = 0 /\ k = 0
    /\ tasks = {} /\ error = "none" /\ failed = {}
    /\ callNo = 0 /\ responses = {} /\ firstCall = Null
    /\ impl = "none" /\ source = <<>> /\ lineNo = 0 /\ parsed = <<>>
    /\ mathBuf = Null /\ mdPc = "idle"
    /\ rFn = "none" /\ rPc = "idle" /\ rIn = <<>> /\ rWrappers = 0
    /\ rBlobUrls = 0 /\ rResult = Null

IsController == call.fn \in {"ViewOnlySlideWithSteps", "SlideWithSteps"}

\* if (activeStepRef.current < stepsRef.current.length)
AdvanceGuard(c) == c.activeStepRef < call.steps

\* advance(): ArrowRight, Space, the key of the current onKey step, or a
\* click on the slide
advance ==
    /\ IsController
    /\ ctl.events < MaxEvents
    /\ returned' = Some(
          IF AdvanceGuard(ctl)
            THEN [ctl EXCEPT !.queue = Append(@, 1), !.lastEvent = "advance",
                             !.events = @ + 1]
            ELSE [ctl EXCEPT !.requested = "next", !.lastEvent = "advance",
                             !.events = @ + 1])
    /\ UNCHANGED <<call, pdfVars, mdVars, rasterVars>>

\* goBackStep() of ViewOnlySlideWithSteps: ArrowLeft
goBackStep ==
    /\ call.fn = "ViewOnlySlideWithSteps"
    /\ ctl.events < MaxEvents
    /\ returned' = Some(
          IF ctl.activeStepRef > 0
            THEN [ctl EXCEPT !.queue = Append(@, -1), !.lastEvent = "goBack",
                             !.events = @ + 1]
            ELSE [ctl EXCEPT !.requested = "prev", !.lastEvent = "goBack",
                             !.events = @ + 1])
    /\ UNCHANGED <<call, pdfVars, mdVars, rasterVars>>

\* ArrowLeft in SlideWithSteps: onPrevSlide(), no step back
onPrevSlide ==
    /\ call.fn = "SlideWithSteps"
    /\ ctl.events < MaxEvents
    /\ returned' = Some([ctl EXCEPT !.requested = "prev", !.lastEvent = "goBack",
                                    !.events = @ + 1])
    /\ UNCHANGED <<call, pdfVars, mdVars, rasterVars>>

RECURSIVE ApplyUpdaters(_, _)
ApplyUpdaters(prev, queue) ==
    IF queue = <<>> THEN prev ELSE ApplyUpdaters(prev + queue[1], Tail(queue))

\* A render of the component: the queued updaters (prev => prev + 1,
\* prev => prev - 1) are applied in order and activeStepRef.current is set
\* to the new activeStep.
render ==
    /\ IsController
    /\ ctl.queue # <<>>
    /\ returned' = Some([ctl EXCEPT !.activeStep = ApplyUpdaters(@, ctl.queue),
                                    !.activeStepRef = ApplyUpdaters(ctl.activeStep, ctl.queue),
                                    !.queue = <<>>, !.lastEvent = "none"])
    /\ UNCHANGED <<call, pdfVars, mdVars, rasterVars>>

\* The parent shows the requested slide: the component of the new slide is
\* mounted, going back after a request for the previous slide.
mount ==
    /\ IsController
    /\ ctl.requested # "none"
    /\ \E steps \in 0..MaxSteps :
         /\ call' = [call EXCEPT !.steps = steps]
         /\ returned' = Some(Mounted(steps, ctl.requested = "prev", ctl.events))
    /\ UNCHANGED <<pdfVars, mdVars, rasterVars>>

NextController ==
    \/ advance
    \/ goBackStep
    \/ onPrevSlide
    \/ render
    \/ mount

SpecController == InitController /\ [][NextController]_vars

(***************************************************************************)
(* Claims about the step controller (specification SpecController)         *)
(***************************************************************************)

\* C30: after any sequence of advance and go-back events, several of them
\* before a render included, activeStep is within 0..steps.length; an
\* advance at activeStep = steps.length requests the next slide and queues
\* no increment, a go-back at activeStep = 0 requests the previous slide and
\* queues no decrement.
C30_ActiveStepWithinSteps ==
    /\ [](IsController => ctl.activeStep \in 0..call.steps)
    /\ [][(IsController /\ ctl'.events = ctl.events + 1) =>
            /\ (ctl'.lastEvent = "advance" /\ ctl.activeStep = call.steps)
                  => (ctl'.requested = "next" /\ ctl'.queue = ctl.queue)
            /\ (ctl'.lastEvent = "goBack" /\ ctl.activeStep = 0)
                  => (ctl'.requested = "prev" /\ ctl'.queue = ctl.queue)]_vars

====
